---- MODULE Spec2Model ----
(***************************************************************************)
(* A model of the GraphicsEngine scene viewer: the OBJ/MTL parser and mesh *)
(* flattener (ObjectParser, ObjectReader), the scene object                *)
(* (RenderObject), the engine and its renderer (GraphicsEngine,            *)
(* WebGLRenderer) and the UI handlers that drive them.                     *)
(*                                                                         *)
(* Encoding of JavaScript values.  An index or a count is an integer.  A   *)
(* floating-point number is held in fixed point, as the integer number of  *)
(* 1/FloatScale units; FloatScale is chosen so that every number the model *)
(* computes is exact.  NaN, and the `undefined` read from beyond the end   *)
(* of an array, are integers outside the range of every number of the      *)
(* vocabulary.  A text is a sequence of                                    *)
(* lines; a line is the sequence of its chunks, the maximal runs of        *)
(* characters between two space characters (so an empty chunk stands for   *)
(* two adjacent spaces).  A JavaScript object used as a dictionary is the  *)
(* sequence of its own properties in creation order.                       *)
(***************************************************************************)
EXTENDS Integers, Sequences, FiniteSets, TLC

\* ------------------------------------------------------------------------
\* JavaScript values
\* ------------------------------------------------------------------------

\* The number of timer ticks of the move controls a behaviour may contain.
MaxTicks == 2

\* 1.0 in fixed point: the step of the move controls starts at 0.005 and grows
\* by the factor 1.1 at every tick, so 3 + MaxTicks decimals hold it exactly.
FloatScale == 10 ^ (3 + MaxTicks)

NaN == 0 - 999999999

UndefTok == "undefined"

NullName == "null"

\* parts[i] of a JavaScript array (0-based); undefined beyond the end.
At(parts, i) == IF i + 1 <= Len(parts) THEN parts[i + 1] ELSE UndefTok

\* parseInt / parseFloat on the tokens of the vocabulary: a decimal numeral gives
\* its value, anything else (a word, the empty string, undefined) gives NaN.
Numerals ==
  [s \in {"0", "1", "2", "3", "4", "5", "6", "7", "8", "9"} |->
     CASE s = "0" -> 0 [] s = "1" -> 1 [] s = "2" -> 2 [] s = "3" -> 3
       [] s = "4" -> 4 [] s = "5" -> 5 [] s = "6" -> 6 [] s = "7" -> 7
       [] s = "8" -> 8 [] s = "9" -> 9]

parseInt(tok) == IF tok \in DOMAIN Numerals THEN Numerals[tok] ELSE NaN

parseFloat(tok) == IF tok \in DOMAIN Numerals THEN Numerals[tok] * FloatScale ELSE NaN

\* A value the fixed-point encoding cannot hold (an irrational number, or one
\* with more decimals than FloatScale has).
Inexact == 0 - 888888888

IsNumber(a) == a # NaN /\ a # Inexact

\* a - b, a + b, a * b, a / b and Math.sqrt(a) in floating point, on fixed-point
\* numbers (and a - b, a + b, a * 3 on indices): NaN propagates.
Minus(a, b) ==
  IF a = NaN \/ b = NaN THEN NaN ELSE IF a = Inexact \/ b = Inexact THEN Inexact ELSE a - b

Plus(a, b) ==
  IF a = NaN \/ b = NaN THEN NaN ELSE IF a = Inexact \/ b = Inexact THEN Inexact ELSE a + b

\* The product of an index and a small integer.
Times(a, b) == IF a = NaN \/ b = NaN THEN NaN ELSE a * b

FTimes(a, b) ==
  IF a = NaN \/ b = NaN THEN NaN
  ELSE IF a = 0 \/ b = 0 THEN 0
  ELSE IF a = Inexact \/ b = Inexact THEN Inexact
  ELSE IF a % FloatScale = 0 THEN (a \div FloatScale) * b
  ELSE IF b % FloatScale = 0 THEN a * (b \div FloatScale)
  ELSE IF b % (FloatScale \div 10) = 0 /\ (a * (b \div (FloatScale \div 10))) % 10 = 0
       THEN (a * (b \div (FloatScale \div 10))) \div 10
  ELSE Inexact

FDivide(a, b) ==
  IF a = NaN \/ b = NaN THEN NaN
  ELSE IF a = Inexact \/ b = Inexact THEN Inexact
  ELSE IF b = 0 THEN NaN
  ELSE IF b % FloatScale = 0 /\ a % (b \div FloatScale) = 0 THEN a \div (b \div FloatScale)
  ELSE Inexact

FSqrt(a) ==
  IF ~IsNumber(a) THEN a
  ELSE IF a < 0 THEN NaN
  ELSE IF a % FloatScale = 0 /\ \E r \in 0..(a \div FloatScale) : r * r = a \div FloatScale
       THEN FloatScale * (CHOOSE r \in 0..(a \div FloatScale) : r * r = a \div FloatScale)
       ELSE Inexact

\* String.split('/') on the face tokens of the vocabulary.
SlashFields(tok) ==
  CASE tok = "1/1"   -> <<"1", "1">>
    [] tok = "2/1"   -> <<"2", "1">>
    [] tok = "3/1"   -> <<"3", "1">>
    [] tok = "1//1"  -> <<"1", "", "1">>
    [] tok = "2//1"  -> <<"2", "", "1">>
    [] tok = "3//1"  -> <<"3", "", "1">>
    [] tok = "1/1/1" -> <<"1", "1", "1">>
    [] OTHER         -> <<tok>>

\* parts[1].split('/').pop().split('\\').pop(): the file name of a path.
BaseName(tok) ==
  CASE tok = "dir/tex.png"   -> "tex.png"
    [] tok = "dir\\tex.png"  -> "tex.png"
    [] tok = "dir/ghost.png" -> "ghost.png"
    [] OTHER                 -> tok

\* Array.prototype.indexOf(x, from): the first 0-based position >= from, or -1.
IndexOfFrom(arr, x, from) ==
  LET hits == {i \in 1..Len(arr) : i - 1 >= from /\ arr[i] = x}
  IN  IF hits = {} THEN -1
      ELSE (CHOOSE i \in hits : \A j \in hits : i <= j) - 1

IndexOf(arr, x) == IndexOfFrom(arr, x, 0)

\* ------------------------------------------------------------------------
\* A JavaScript object used as a dictionary: <<[k |-> key, v |-> value], ...>>
\* in property-creation order.
\* ------------------------------------------------------------------------

HasOwn(obj, key) == \E i \in 1..Len(obj) : obj[i].k = key

GetOwn(obj, key) == obj[CHOOSE i \in 1..Len(obj) : obj[i].k = key].v

\* obj[key] = value: an existing property keeps its place.
SetOwn(obj, key, value) ==
  IF HasOwn(obj, key)
  THEN [i \in 1..Len(obj) |-> IF obj[i].k = key THEN [k |-> key, v |-> value] ELSE obj[i]]
  ELSE Append(obj, [k |-> key, v |-> value])

RECURSIVE SortedInts(_)
SortedInts(S) ==
  IF S = {} THEN <<>>
  ELSE LET m == CHOOSE x \in S : \A y \in S : x <= y
       IN  <<m>> \o SortedInts(S \ {m})

NumeralOf(n) == CHOOSE s \in DOMAIN Numerals : Numerals[s] = n

\* Object.keys / Object.values order (OrdinaryOwnPropertyKeys): the keys that are
\* canonical array indices first, in ascending numeric order, then the other
\* string keys in creation order.
ObjectKeysInsertionOrder(obj) == [i \in 1..Len(obj) |-> obj[i].k]

ObjectKeys(obj) ==
  LET idx  == {Numerals[obj[i].k] : i \in {j \in 1..Len(obj) : obj[j].k \in DOMAIN Numerals}}
      ints == SortedInts(idx)
      strs == SelectSeq(ObjectKeysInsertionOrder(obj), LAMBDA key : key \notin DOMAIN Numerals)
  IN  [i \in 1..Len(ints) |-> NumeralOf(ints[i])] \o strs

ObjectValues(obj) ==
  LET keys == ObjectKeys(obj) IN [i \in 1..Len(keys) |-> GetOwn(obj, keys[i])]

\* ------------------------------------------------------------------------
\* MaterialBuffer (src/objects/materialbuffer.js)
\* ------------------------------------------------------------------------

One == FloatScale

MaterialBuffer(name) ==
  [name |-> name,
   Kd |-> <<One, One, One>>, Ks |-> <<One, One, One>>, Ka |-> <<One, One, One>>,
   Ns |-> 32 * One, illum |-> 2 * One, alpha |-> One, Ni |-> One,
   transmissionFilter |-> <<One, One, One>>, Ke |-> <<0, 0, 0>>,
   ambientTexture |-> -1, diffuseTexture |-> -1, normalTexture |-> -1,
   specularTexture |-> -1, shininessTexture |-> -1, emissionTexture |-> -1]

\* ------------------------------------------------------------------------
\* ObjectParser (src/unnamed/part_005)
\* ------------------------------------------------------------------------

\* String.trim() followed by split(" "), on a line given as its chunks: the
\* spaces at both ends go, the empty chunks between two inner spaces stay, and
\* an empty line splits to the one empty string.
RECURSIVE DropLeadingEmpty(_)
DropLeadingEmpty(line) ==
  IF line = <<>> THEN <<>>
  ELSE IF Head(line) = "" THEN DropLeadingEmpty(Tail(line)) ELSE line

RECURSIVE DropTrailingEmpty(_)
DropTrailingEmpty(line) ==
  IF line = <<>> THEN <<>>
  ELSE IF line[Len(line)] = "" THEN DropTrailingEmpty(SubSeq(line, 1, Len(line) - 1))
       ELSE line

TrimSplit(line) ==
  LET t == DropTrailingEmpty(DropLeadingEmpty(line))
  IN  IF t = <<>> THEN <<"">> ELSE t

\* The fields the constructor sets before it parses; mtlRead and objRead count
\* the lines the two loops have gone through, reported the console.error calls.
NewParser(textures) ==
  [objects |-> <<>>, vertices |-> <<>>, normals |-> <<>>, texCoords |-> <<>>,
   materials |-> <<[k |-> "default", v |-> MaterialBuffer("default")]>>,
   textures |-> textures,
   currentObjectName |-> NullName,
   threw |-> FALSE, reported |-> <<>>, mtlRead |-> 0, objRead |-> 0]

SetCurrentMaterialOfAll(st, field, value) ==
  IF ~st.hasCur
  THEN [st EXCEPT !.p.threw = TRUE]
  ELSE [st EXCEPT !.p.materials =
          [i \in 1..Len(@) |-> [k |-> @[i].k, v |-> [@[i].v EXCEPT ![field] = value]]]]

\* currentMaterial.<field> = value; a TypeError while currentMaterial is null.
SetCurrentMaterial(st, field, value) ==
  IF ~st.hasCur
  THEN [st EXCEPT !.p.threw = TRUE]
  ELSE [st EXCEPT !.p.materials =
          SetOwn(@, st.cur, [GetOwn(@, st.cur) EXCEPT ![field] = value])]

\* currentMaterial.<field> = this.textures.indexOf(file name of parts[1]).
SetCurrentTexture(st, parts, field) ==
  IF Len(parts) < 2
  THEN [st EXCEPT !.p.threw = TRUE]
  ELSE SetCurrentMaterial(st, field, IndexOf(st.p.textures, BaseName(parts[2])))

Floats3(parts) == <<parseFloat(At(parts, 1)), parseFloat(At(parts, 2)), parseFloat(At(parts, 3))>>

\* One turn of the loop of #parseMTL.  st = [p, hasCur, cur]: the parser and
\* currentMaterial (the material stored under the name cur, or null).
ParseMTLLine(st, line) ==
  LET parts == TrimSplit(line)
      kw    == parts[1]
      s1    == [st EXCEPT !.p.mtlRead = @ + 1]
  IN  CASE kw = "newmtl" ->
             [s1 EXCEPT !.p.materials = SetOwn(@, At(parts, 1), MaterialBuffer(At(parts, 1))),
                        !.hasCur = TRUE, !.cur = At(parts, 1)]
        [] kw = "illum" -> SetCurrentMaterial(s1, "illum", parseFloat(At(parts, 1)))
        [] kw = "Ka" -> SetCurrentMaterial(s1, "Ka", Floats3(parts))
        [] kw = "Kd" -> SetCurrentMaterial(s1, "Kd", Floats3(parts))
        [] kw = "Ks" -> SetCurrentMaterial(s1, "Ks", Floats3(parts))
        [] kw = "Ke" -> SetCurrentMaterial(s1, "Ke", Floats3(parts))
        [] kw = "map_Ke" -> SetCurrentTexture(s1, parts, "emissionTexture")
        [] kw = "map_Kd" -> SetCurrentTexture(s1, parts, "diffuseTexture")
        [] kw = "map_Ns" -> SetCurrentTexture(s1, parts, "shininessTexture")
        [] kw \in {"bump", "map_Bump"} -> SetCurrentTexture(s1, parts, "normalTexture")
        [] kw = "map_Ks" -> SetCurrentTexture(s1, parts, "specularTexture")
        [] kw = "map_Ka" -> SetCurrentTexture(s1, parts, "ambientTexture")
        [] kw = "Tr" -> SetCurrentMaterial(s1, "alpha", Minus(One, parseFloat(At(parts, 1))))
        [] kw = "Tf" -> SetCurrentMaterial(s1, "transmissionFilter", Floats3(parts))
        [] kw = "Ns" -> SetCurrentMaterial(s1, "Ns", parseFloat(At(parts, 1)))
        [] kw = "d" -> SetCurrentMaterial(s1, "alpha", parseFloat(At(parts, 1)))
        [] kw = "Ni" -> SetCurrentMaterial(s1, "Ni", parseFloat(At(parts, 1)))
        [] kw \in {"refl", "#", ""} -> s1
        [] OTHER -> [s1 EXCEPT !.p.reported = Append(@, "Unexpected command")]

\* #parseMTL: the lines in order; an exception ends the loop.
RECURSIVE ParseMTLLoop(_, _)
ParseMTLLoop(st, lines) ==
  IF lines = <<>> \/ st.p.threw THEN st
  ELSE ParseMTLLoop(ParseMTLLine(st, Head(lines)), Tail(lines))

parseMTL(p, text) ==
  ParseMTLLoop([p |-> p, hasCur |-> FALSE, cur |-> NullName], text).p

\* The names every object inherits from Object.prototype as functions: for such
\* a name, obj[name] is truthy although obj has no own property of that name.
ProtoKeys == {"constructor", "toString", "valueOf", "hasOwnProperty"}

\* String.replaceAll('"', '') on the names of the vocabulary.
Unquote(tok) ==
  CASE tok = "\"A\"" -> "A"
    [] OTHER -> tok

\* #initializeObject
initializeObject(p, objectName) ==
  [p EXCEPT !.objects = SetOwn(@, objectName, [faces |-> <<>>, lines |-> <<>>, materials |-> <<>>])]

\* One entry of a face: parts[i] split at '/'.
FaceVertex(tok, currentMaterialIdx) ==
  LET vertexData == SlashFields(tok)
      opt(i) == IF At(vertexData, i) \in {UndefTok, ""} THEN -1
                ELSE Minus(parseInt(At(vertexData, i)), 1)
  IN  [vertexIndex   |-> Minus(parseInt(At(vertexData, 0)), 1),
       texCoordIndex |-> opt(1),
       normalIndex   |-> opt(2),
       material      |-> currentMaterialIdx]

\* this.objects[this.currentObjectName].<list>.push(item): a TypeError when
\* this.objects has no own property of that name (currentObjectName is null
\* before the first o/g line, and null is looked up as the key "null").
PushToCurrentObject(st, list, item) ==
  LET name == st.p.currentObjectName
  IN  IF ~HasOwn(st.p.objects, name)
      THEN [st EXCEPT !.p.threw = TRUE]
      ELSE [st EXCEPT !.p.objects =
              SetOwn(@, name, [GetOwn(@, name) EXCEPT ![list] = Append(@, item)])]

\* One turn of the loop of #parseOBJ.  st = [p, currentMaterialIdx].
ParseOBJLine(st, line) ==
  LET parts == TrimSplit(line)
      kw    == parts[1]
      s1    == [st EXCEPT !.p.objRead = @ + 1]
      rest  == Tail(parts)
  IN  CASE kw \in {"o", "g"} ->
             LET name == IF Len(parts) >= 2 THEN parts[2] ELSE "default"
                 s2   == [s1 EXCEPT !.p.currentObjectName = name]
             IN  IF HasOwn(s2.p.objects, name) \/ name \in ProtoKeys
                 THEN s2
                 ELSE [s2 EXCEPT !.p = initializeObject(@, name)]
        [] kw = "v" -> [s1 EXCEPT !.p.vertices = @ \o Floats3(parts)]
        [] kw = "vn" -> [s1 EXCEPT !.p.normals = @ \o Floats3(parts)]
        [] kw = "vt" ->
             [s1 EXCEPT !.p.texCoords = @ \o <<parseFloat(At(parts, 1)), parseFloat(At(parts, 2))>>]
        [] kw = "f" ->
             PushToCurrentObject(s1, "faces",
               [i \in 1..Len(rest) |-> FaceVertex(rest[i], s1.currentMaterialIdx)])
        [] kw = "l" ->
             PushToCurrentObject(s1, "lines",
               [i \in 1..Len(rest) |-> Minus(parseInt(rest[i]), 1)])
        [] kw = "usemtl" ->
             IF Len(parts) < 2
             THEN [s1 EXCEPT !.p.threw = TRUE]
             ELSE LET idx == IndexOfFrom(ObjectKeys(s1.p.materials), Unquote(parts[2]), 1)
                  IN  [s1 EXCEPT !.currentMaterialIdx = idx,
                                 !.p.reported = IF idx = -1
                                                THEN Append(@, "Couldn't find material")
                                                ELSE @]
        [] kw \in {"#", "mtllib", "s", ""} -> s1
        [] OTHER -> [s1 EXCEPT !.p.reported = Append(@, "Unexpected command")]

\* #parseOBJ: the lines in order; an exception ends the loop.
RECURSIVE ParseOBJLoop(_, _)
ParseOBJLoop(st, lines) ==
  IF lines = <<>> \/ st.p.threw THEN st
  ELSE ParseOBJLoop(ParseOBJLine(st, Head(lines)), Tail(lines))

parseOBJ(p, text) ==
  ParseOBJLoop([p |-> p, currentMaterialIdx |-> -1], text).p

\* new ObjectParser(objString, mtlString, textures): the material library first,
\* then the geometry; an exception in the first leaves the second unparsed.
ObjectParser(objString, mtlString, textures) ==
  LET afterMTL == parseMTL(NewParser(textures), mtlString)
  IN  IF afterMTL.threw THEN afterMTL ELSE parseOBJ(afterMTL, objString)

\* ------------------------------------------------------------------------
\* The flattener: the getters of ObjectParser
\* ------------------------------------------------------------------------

getObjectNames(p) == ObjectKeys(p.objects)

RECURSIVE Flatten(_)
Flatten(seqs) == IF seqs = <<>> THEN <<>> ELSE Head(seqs) \o Flatten(Tail(seqs))

\* The faces in the order of the three nested loops: part, then face.
FacesInOrder(p) ==
  LET names == getObjectNames(p)
  IN  Flatten([i \in 1..Len(names) |-> GetOwn(p.objects, names[i]).faces])

\* arr[i] stored into a Float32Array: NaN for an index that is NaN, negative or
\* beyond the end (the read gives undefined).
ReadFloat(arr, i) ==
  IF i = NaN \/ i < 0 \/ i >= Len(arr) THEN NaN ELSE arr[i + 1]

getVertices(p) ==
  LET faces == FacesInOrder(p)
      one(vertex) == LET vi == vertex.vertexIndex
                     IN  <<ReadFloat(p.vertices, Times(vi, 3)),
                           ReadFloat(p.vertices, Plus(Times(vi, 3), 1)),
                           ReadFloat(p.vertices, Plus(Times(vi, 3), 2))>>
  IN  Flatten([f \in 1..Len(faces) |->
                 Flatten([k \in 1..Len(faces[f]) |-> one(faces[f][k])])])

\* A getTexCoords that pushes nothing for a vertex without a texture index.
getTexCoordsSparse(p) ==
  LET faces == FacesInOrder(p)
      one(vertex) == LET ti == vertex.texCoordIndex
                     IN  IF ti # -1
                         THEN <<ReadFloat(p.texCoords, Times(ti, 2)),
                                ReadFloat(p.texCoords, Plus(Times(ti, 2), 1))>>
                         ELSE <<>>
  IN  Flatten([f \in 1..Len(faces) |->
                 Flatten([k \in 1..Len(faces[f]) |-> one(faces[f][k])])])

getTexCoords(p) ==
  LET faces == FacesInOrder(p)
      one(vertex) == LET ti == vertex.texCoordIndex
                     IN  IF ti # -1
                         THEN <<ReadFloat(p.texCoords, Times(ti, 2)),
                                ReadFloat(p.texCoords, Plus(Times(ti, 2), 1))>>
                         ELSE <<0, 0>>
  IN  Flatten([f \in 1..Len(faces) |->
                 Flatten([k \in 1..Len(faces[f]) |-> one(faces[f][k])])])

\* this.vertices.slice(3 vi, 3 vi + 3), read at 0, 1, 2.
SliceVertex(p, vi) ==
  IF vi = NaN \/ vi < 0 \/ 3 * vi + 2 >= Len(p.vertices)
  THEN <<NaN, NaN, NaN>>
  ELSE <<p.vertices[3 * vi + 1], p.vertices[3 * vi + 2], p.vertices[3 * vi + 3]>>

\* A calculateNormal that takes the cross product the other way round.
calculateNormalReversed(v1, v2, v3) ==
  LET u == <<Minus(v2[1], v1[1]), Minus(v2[2], v1[2]), Minus(v2[3], v1[3])>>
      v == <<Minus(v3[1], v1[1]), Minus(v3[2], v1[2]), Minus(v3[3], v1[3])>>
      normal == <<Minus(FTimes(v[2], u[3]), FTimes(v[3], u[2])),
                  Minus(FTimes(v[3], u[1]), FTimes(v[1], u[3])),
                  Minus(FTimes(v[1], u[2]), FTimes(v[2], u[1]))>>
      length == FSqrt(Plus(Plus(FTimes(normal[1], normal[1]), FTimes(normal[2], normal[2])),
                           FTimes(normal[3], normal[3])))
  IN  <<FDivide(normal[1], length), FDivide(normal[2], length), FDivide(normal[3], length)>>

calculateNormal(v1, v2, v3) ==
  LET u == <<Minus(v2[1], v1[1]), Minus(v2[2], v1[2]), Minus(v2[3], v1[3])>>
      v == <<Minus(v3[1], v1[1]), Minus(v3[2], v1[2]), Minus(v3[3], v1[3])>>
      normal == <<Minus(FTimes(u[2], v[3]), FTimes(u[3], v[2])),
                  Minus(FTimes(u[3], v[1]), FTimes(u[1], v[3])),
                  Minus(FTimes(u[1], v[2]), FTimes(u[2], v[1]))>>
      length == FSqrt(Plus(Plus(FTimes(normal[1], normal[1]), FTimes(normal[2], normal[2])),
                           FTimes(normal[3], normal[3])))
  IN  <<FDivide(normal[1], length), FDivide(normal[2], length), FDivide(normal[3], length)>>

\* getNormals reads face[0].normalIndex and, for a face without normals,
\* face[1].vertexIndex and face[2].vertexIndex: a TypeError on a shorter face.
NormalsThrow(p) ==
  \E i \in 1..Len(FacesInOrder(p)) :
     LET face == FacesInOrder(p)[i]
     IN  \/ Len(face) = 0
         \/ face[1].normalIndex = -1 /\ Len(face) < 3

getNormals(p) ==
  LET faces == FacesInOrder(p)
      copied(vertex) == LET ni == vertex.normalIndex
                        IN  <<ReadFloat(p.normals, Times(ni, 3)),
                              ReadFloat(p.normals, Plus(Times(ni, 3), 1)),
                              ReadFloat(p.normals, Plus(Times(ni, 3), 2))>>
      one(face) ==
        IF face[1].normalIndex # -1
        THEN Flatten([k \in 1..Len(face) |-> copied(face[k])])
        ELSE LET normal == calculateNormal(SliceVertex(p, face[1].vertexIndex),
                                           SliceVertex(p, face[2].vertexIndex),
                                           SliceVertex(p, face[3].vertexIndex))
             IN  Flatten([k \in 1..Len(face) |-> normal])
  IN  Flatten([f \in 1..Len(faces) |-> one(faces[f])])

\* getMaterials: vertex.material ?? 0 is vertex.material, which is never null
\* or undefined.
getMaterials(p) ==
  LET names == getObjectNames(p)
      faces == FacesInOrder(p)
      count(name) == Len(Flatten(GetOwn(p.objects, name).faces))
  IN  [indicesCounts |-> [i \in 1..Len(names) |-> [k |-> names[i], v |-> count(names[i])]],
       indices |-> Flatten([f \in 1..Len(faces) |->
                      [k \in 1..Len(faces[f]) |-> faces[f][k].material]]),
       materials |-> ObjectValues(p.materials)]

\* The triples getIndices pushes for one face whose first flattened vertex is index.
FaceTriples(face, index) ==
  IF Len(face) = 3 THEN <<index, index + 1, index + 2>>
  ELSE IF Len(face) > 3
       THEN Flatten([i \in 1..(Len(face) - 2) |-> <<index, index + i, index + i + 1>>])
       ELSE <<>>

\* One face of getIndices.  acc = [buffer, isArray, counts, index, threw]:
\* indexCount['buffer'] (an array until a part named buffer has `+= 3` applied
\* to it, which makes it a string), the per-part counts, the running index.
IndicesFace(acc, name, face) ==
  LET triples == FaceTriples(face, acc.index)
  IN  IF acc.threw THEN acc
      ELSE IF triples = <<>> THEN [acc EXCEPT !.index = @ + Len(face)]
      ELSE IF ~acc.isArray THEN [acc EXCEPT !.threw = TRUE]
      ELSE IF name = "buffer"
           THEN IF Len(triples) > 3
                THEN [acc EXCEPT !.threw = TRUE]
                ELSE [acc EXCEPT !.buffer = <<>>, !.isArray = FALSE, !.index = @ + Len(face)]
           ELSE [acc EXCEPT !.buffer = @ \o triples,
                            !.counts = SetOwn(@, name, GetOwn(@, name) + Len(triples)),
                            !.index = @ + Len(face)]

RECURSIVE IndicesFaces(_, _, _)
IndicesFaces(acc, name, faces) ==
  IF faces = <<>> THEN acc
  ELSE IndicesFaces(IndicesFace(acc, name, Head(faces)), name, Tail(faces))

RECURSIVE IndicesParts(_, _, _)
IndicesParts(acc, p, names) ==
  IF names = <<>> THEN acc
  ELSE LET name == Head(names)
           a1   == IF name = "buffer" THEN acc
                   ELSE [acc EXCEPT !.counts = SetOwn(@, name, 0)]
       IN  IndicesParts(IndicesFaces(a1, name, GetOwn(p.objects, name).faces), p, Tail(names))

\* getIndices: [buffer, counts, threw]; the count of a part named buffer is
\* indexCount['buffer'] itself, which is not a number (NaN here).
getIndices(p) ==
  LET acc == IndicesParts([buffer |-> <<>>, isArray |-> TRUE, counts |-> <<>>,
                           index |-> 0, threw |-> FALSE], p, getObjectNames(p))
  IN  [buffer |-> acc.buffer,
       counts |-> IF HasOwn(p.objects, "buffer") THEN SetOwn(acc.counts, "buffer", NaN)
                  ELSE acc.counts,
       threw  |-> acc.threw]

\* A number stored into a Uint32Array: NaN becomes 0 and a negative integer x
\* wraps to 2^32 + x, which is written x here (2^32 is beyond the integers of
\* the checker): a negative entry is an index beyond every array.
ToUint32(x) == IF x = NaN THEN 0 ELSE x

\* The pairs getLineIndices pushes for one polyline.
LinePairs(line) ==
  Flatten([i \in 1..(IF Len(line) = 0 THEN 0 ELSE Len(line) - 1) |-> <<line[i], line[i + 1]>>])

\* getLineIndices: linesCount[objectName] = 0 replaces linesCount['buffer'] by a
\* number for a part named buffer, and the next push throws.
RECURSIVE LineParts(_, _, _)
LineParts(acc, p, names) ==
  IF names = <<>> \/ acc.threw THEN acc
  ELSE LET name  == Head(names)
           pairs == Flatten([i \in 1..Len(GetOwn(p.objects, name).lines) |->
                               LinePairs(GetOwn(p.objects, name).lines[i])])
           a1    == IF name = "buffer" THEN [acc EXCEPT !.buffer = <<>>, !.isArray = FALSE]
                    ELSE [acc EXCEPT !.counts = SetOwn(@, name, 0)]
           a2    == IF pairs = <<>> THEN a1
                    ELSE IF ~a1.isArray THEN [a1 EXCEPT !.threw = TRUE]
                    ELSE [a1 EXCEPT !.buffer = @ \o pairs,
                                    !.counts = SetOwn(@, name, Len(pairs))]
       IN  LineParts(a2, p, Tail(names))

getLineIndices(p) ==
  LET acc == LineParts([buffer |-> <<>>, isArray |-> TRUE, counts |-> <<>>,
                        threw |-> FALSE], p, getObjectNames(p))
  IN  [buffer |-> [i \in 1..Len(acc.buffer) |-> ToUint32(acc.buffer[i])],
       counts |-> IF HasOwn(p.objects, "buffer") THEN SetOwn(acc.counts, "buffer", NaN)
                  ELSE acc.counts,
       threw  |-> acc.threw]

\* ------------------------------------------------------------------------
\* ObjectReader (src/objects/objectreader.js), RenderObject and RenderObjectPart
\* (src/objects/renderobject.js), TransformationMatrix (src/main.js)
\* ------------------------------------------------------------------------

\* TransformationMatrix.identity(): the 16 elements, row-major.
Identity ==
  <<One, 0, 0, 0,
    0, One, 0, 0,
    0, 0, One, 0,
    0, 0, 0, One>>

\* Math.PI and Math.PI / 2 on the fixed-point grid.
Pi == 314159 * (FloatScale \div 100000)

HalfPi == Pi \div 2

\* Math.sin and Math.cos: at 0, at a quarter turn and at a half turn the value
\* is 0, 1 or -1 to the precision of the grid; at the other angles the model
\* uses the value is irrational.
Sin(angle) ==
  IF angle = NaN THEN NaN
  ELSE IF angle = 0 \/ angle = Pi THEN 0
  ELSE IF angle = HalfPi THEN One
  ELSE Inexact

Cos(angle) ==
  IF angle = NaN THEN NaN
  ELSE IF angle = 0 THEN One
  ELSE IF angle = HalfPi THEN 0
  ELSE IF angle = Pi THEN 0 - One
  ELSE Inexact

\* Matrix.multiply on two 4x4 matrices: sum starts at 0 and adds the four
\* products in order.
MatrixMultiply(a, b) ==
  [n \in 1..16 |->
     LET i == (n - 1) \div 4
         j == (n - 1) % 4
         term(k) == FTimes(a[4 * i + k + 1], b[4 * k + j + 1])
     IN  Plus(Plus(Plus(Plus(0, term(0)), term(1)), term(2)), term(3))]

\* TransformationMatrix.transform(vector): the vector is <<x, y, z>>.
transform(m, vector) ==
  LET x == vector[1]
      y == vector[2]
      z == vector[3]
      w == Plus(Plus(Plus(FTimes(m[13], x), FTimes(m[14], y)), FTimes(m[15], z)), m[16])
      row(r) == Plus(Plus(Plus(FTimes(m[4 * r + 1], x), FTimes(m[4 * r + 2], y)),
                          FTimes(m[4 * r + 3], z)), m[4 * r + 4])
      inverseW == FDivide(One, w)
  IN  <<FTimes(row(0), inverseW), FTimes(row(1), inverseW), FTimes(row(2), inverseW)>>

\* -a in floating point.
Negate(a) == IF IsNumber(a) THEN 0 - a ELSE a

\* TransformationMatrix.inverse(): the first three elements of each of the
\* first three rows are copied as they are, the fourth is minus the dot product
\* of a column of the rotation part with the translation.
inverse(m) ==
  <<m[1], m[2], m[3],
      Negate(Plus(Plus(FTimes(m[1], m[4]), FTimes(m[5], m[8])), FTimes(m[9], m[12]))),
    m[5], m[6], m[7],
      Negate(Plus(Plus(FTimes(m[2], m[4]), FTimes(m[6], m[8])), FTimes(m[10], m[12]))),
    m[9], m[10], m[11],
      Negate(Plus(Plus(FTimes(m[3], m[4]), FTimes(m[7], m[8])), FTimes(m[11], m[12]))),
    0, 0, 0, One>>

\* Vector3D.normalize()
normalize(v) ==
  LET len == FSqrt(Plus(Plus(FTimes(v[1], v[1]), FTimes(v[2], v[2])), FTimes(v[3], v[3])))
  IN  IF len = 0 THEN <<0, 0, 0>>
      ELSE <<FDivide(v[1], len), FDivide(v[2], len), FDivide(v[3], len)>>

\* TransformationMatrix.setTraslation(traslation): elements 3, 7 and 11 of the
\* matrix itself are overwritten.
setTraslation(m, traslation) ==
  [m EXCEPT ![4] = traslation[1], ![8] = traslation[2], ![12] = traslation[3]]

createTraslationMatrix(direction) ==
  <<One, 0, 0, direction[1],
    0, One, 0, direction[2],
    0, 0, One, direction[3],
    0, 0, 0, One>>

createRotationAroundAxis(angle, axis) ==
  LET cos  == Cos(angle)
      mcos == Minus(One, cos)
      sin  == Sin(angle)
      ux   == axis[1]
      uy   == axis[2]
      uz   == axis[3]
  IN  <<Plus(cos, FTimes(FTimes(ux, ux), mcos)),
        Minus(FTimes(FTimes(ux, uy), mcos), FTimes(uz, sin)),
        Plus(FTimes(FTimes(ux, uz), mcos), FTimes(uy, sin)), 0,
        Plus(FTimes(FTimes(uy, ux), mcos), FTimes(uz, sin)),
        Plus(cos, FTimes(FTimes(uy, uy), mcos)),
        Minus(FTimes(FTimes(uy, uz), mcos), FTimes(ux, sin)), 0,
        Minus(FTimes(FTimes(uz, ux), mcos), FTimes(uy, sin)),
        Plus(FTimes(FTimes(uz, uy), mcos), FTimes(ux, sin)),
        Plus(cos, FTimes(FTimes(uz, uz), mcos)), 0,
        0, 0, 0, One>>

\* TransformationMatrix.createRotationAroundPoint(angle, axis, point): the
\* sixteen elements as the code writes them.
createRotationAroundPoint(angle, axis, point) ==
  LET u  == normalize(axis)
      ux == u[1]
      uy == u[2]
      uz == u[3]
      x  == point[1]
      y  == point[2]
      z  == point[3]
      c  == Cos(angle)
      s  == Sin(angle)
      t  == Minus(One, c)
  IN  <<Plus(FTimes(FTimes(ux, ux), t), c),
        Minus(FTimes(FTimes(ux, uy), t), FTimes(uz, s)),
        Plus(FTimes(FTimes(ux, uz), t), FTimes(uy, s)),
        Plus(FTimes(Plus(Plus(FTimes(x, Minus(FTimes(ux, ux), One)), FTimes(FTimes(y, ux), uy)),
                         FTimes(FTimes(z, ux), uz)), t),
             FTimes(Minus(FTimes(y, uz), FTimes(z, uy)), s)),
        Plus(FTimes(FTimes(uy, ux), t), FTimes(uz, s)),
        Plus(FTimes(FTimes(uy, uy), t), c),
        Minus(FTimes(FTimes(uy, uz), t), FTimes(ux, s)),
        Plus(FTimes(Plus(Plus(FTimes(y, Minus(FTimes(uy, uy), One)), FTimes(FTimes(x, ux), uy)),
                         FTimes(FTimes(z, uy), uz)), t),
             FTimes(Minus(FTimes(z, ux), FTimes(x, uz)), s)),
        Minus(FTimes(FTimes(uz, ux), t), FTimes(uy, s)),
        Plus(FTimes(FTimes(uz, uy), t), FTimes(ux, s)),
        Plus(FTimes(FTimes(uz, uz), t), c),
        Plus(FTimes(Plus(Plus(FTimes(z, Minus(FTimes(uz, uz), One)), FTimes(FTimes(x, ux), uz)),
                         FTimes(FTimes(y, uy), uz)), t),
             FTimes(Minus(FTimes(x, uy), FTimes(y, ux)), s)),
        0, 0, 0, One>>

createRotationMatrixXYZ(x, y, z) ==
  LET rotationX == createRotationAroundAxis(x, <<One, 0, 0>>)
      rotationY == createRotationAroundAxis(y, <<0, One, 0>>)
      rotationZ == createRotationAroundAxis(z, <<0, 0, One>>)
  IN  MatrixMultiply(MatrixMultiply(rotationX, rotationY), rotationZ)

\* TransformationMatrix.createRotationMatrix(x, y, z) with the default axes.
createRotationMatrix(x, y, z) ==
  LET rotationX == createRotationAroundAxis(x, <<One, 0, 0>>)
      rotationY == createRotationAroundAxis(y, <<0, One, 0>>)
      rotationZ == createRotationAroundAxis(z, <<0, 0, One>>)
  IN  MatrixMultiply(MatrixMultiply(rotationZ, rotationY), rotationX)

\* new RenderObject(...): the transform is the identity and renderData is
\* vertexData.  A texture is named by the number of the load that decoded it;
\* 0 is null.
RenderObject(vertexData, textureData, normalsData, materials, indexData, lineIndexData,
             materialIndexData, partialTextures) ==
  [transformation |-> Identity,
   vertexData |-> vertexData, renderData |-> vertexData,
   textureData |-> textureData, normalsData |-> normalsData,
   materials |-> materials, invertCoords |-> FALSE, parts |-> <<>>,
   diffuseTexture |-> 0, normalTexture |-> 0, specularTexture |-> 0,
   partialTextures |-> partialTextures,
   indexData |-> indexData, lineIndexData |-> lineIndexData,
   materialIndexData |-> materialIndexData]

RenderObjectPart(indexLenght, lineIndexLenght, materialsIndexLength) ==
  [indexLenght |-> indexLenght, lineIndexLenght |-> lineIndexLenght,
   materialsIndexLength |-> materialsIndexLength]

\* RenderObject.#applyTransformations: renderData is rebuilt, vertex by
\* vertex, from vertexData and the current transform.
applyTransformations(o) ==
  [o EXCEPT !.renderData =
     Flatten([k \in 1..(Len(o.vertexData) \div 3) |->
                transform(o.transformation,
                          <<o.vertexData[3 * k - 2], o.vertexData[3 * k - 1],
                            o.vertexData[3 * k]>>)])]

moveDeferred(o, direction) ==
  [o EXCEPT !.transformation = MatrixMultiply(@, createTraslationMatrix(direction))]

\* RenderObject.move(direction)
move(o, direction) ==
  applyTransformations(
    [o EXCEPT !.transformation = MatrixMultiply(@, createTraslationMatrix(direction))])

\* RenderObject.rotate(x, y, z)
rotate(o, x, y, z) ==
  applyTransformations(
    [o EXCEPT !.transformation = MatrixMultiply(@, createRotationMatrix(x, y, z))])

\* RenderObject.setPosition(position)
setPosition(o, position) ==
  applyTransformations([o EXCEPT !.transformation = setTraslation(@, position)])

resetTransformationsKeepsData(o) == [o EXCEPT !.transformation = Identity]

\* RenderObject.resetTransformations()
resetTransformations(o) == applyTransformations([o EXCEPT !.transformation = Identity])

setDiffuseTexture(o, texture) == [o EXCEPT !.diffuseTexture = texture]

setNormalTexture(o, texture) == [o EXCEPT !.normalTexture = texture]

setSpecularTexture(o, texture) == [o EXCEPT !.specularTexture = texture]

getTextures(o) ==
  [normalTexture |-> o.normalTexture, diffuseTexture |-> o.diffuseTexture,
   specularTexture |-> o.specularTexture]

\* The value of a file's text or of the textures argument that is null or
\* undefined, and the object a rejected getObject stands for.
Absent == [present |-> FALSE, value |-> <<>>]

Present(v) == [present |-> TRUE, value |-> v]

\* ObjectReader.getObject: [threw, object].  Object.keys(this.textures) throws on
\* undefined, text.split on a null text, and so do the constructor of
\* ObjectParser and the getters; the catch block rethrows.
getObject(objFile, mtlFile, textures) ==
  IF ~textures.present \/ ~mtlFile.present
  THEN [threw |-> TRUE, object |-> Absent]
  ELSE LET afterMTL == parseMTL(NewParser(textures.value), mtlFile.value) IN
       IF afterMTL.threw \/ ~objFile.present
       THEN [threw |-> TRUE, object |-> Absent]
       ELSE LET parser == parseOBJ(afterMTL, objFile.value) IN
            IF parser.threw THEN [threw |-> TRUE, object |-> Absent]
            ELSE LET partNames      == getObjectNames(parser)
                     indexInfo      == getIndices(parser)
                     linesIndexInfo == getLineIndices(parser)
                     materials      == getMaterials(parser)
                 IN  IF indexInfo.threw \/ linesIndexInfo.threw \/ NormalsThrow(parser)
                     THEN [threw |-> TRUE, object |-> Absent]
                     ELSE LET renderObject ==
                                RenderObject(getVertices(parser), getTexCoords(parser),
                                             getNormals(parser), materials.materials,
                                             indexInfo.buffer, linesIndexInfo.buffer,
                                             materials.indices, textures.value)
                              parts == [i \in 1..Len(partNames) |->
                                          RenderObjectPart(
                                            GetOwn(indexInfo.counts, partNames[i]),
                                            GetOwn(linesIndexInfo.counts, partNames[i]),
                                            GetOwn(materials.indicesCounts, partNames[i]))]
                          IN  [threw |-> FALSE,
                               object |-> Present([renderObject EXCEPT !.parts = parts])]

\* ------------------------------------------------------------------------
\* WebGLRenderer (src/engine/webglrenderer.js) and GraphicsEngine
\* (src/engine/webglbuffer.js).  A render object is named by its position in
\* the heap of the objects created so far; 0 is null.  this.buffers, a Map, is
\* the sequence of its entries in insertion order, and an entry holds what the
\* WebGLBuffer was loaded with.  The engine is the record
\* [renderObjects, cameraPosition, buffers, drawn], drawn being what the last
\* renderAll drew.
\* ------------------------------------------------------------------------

\* Map.prototype.delete and Map.prototype.set: a new key goes to the end, a
\* key that is present keeps its place.
MapDelete(map, key) == SelectSeq(map, LAMBDA e : e.obj # key)

MapSet(map, key, entry) ==
  IF \E i \in 1..Len(map) : map[i].obj = key
  THEN [i \in 1..Len(map) |-> IF map[i].obj = key THEN entry ELSE map[i]]
  ELSE Append(map, entry)

\* WebGLRenderer.initBuffers(renderObject)
initBuffers(buffers, heap, id) ==
  MapSet(buffers, id,
         [obj |-> id, positions |-> heap[id].renderData, textures |-> getTextures(heap[id]),
          indexInformation |-> heap[id].parts])

\* WebGLRenderer.refreshBuffers(renderObject)
refreshBuffers(buffers, heap, id) == initBuffers(MapDelete(buffers, id), heap, id)

\* WebGLRenderer.removeBuffer(renderObject)
removeBuffer(buffers, id) == MapDelete(buffers, id)

\* WebGLRenderer.renderAll(renderParams): the buffers drawn, in the order of
\* this.buffers.forEach.
renderAll(buffers) == buffers

\* WebGLRenderer.renderObject, the loop over buffer.indexInformation: one
\* drawElements call per part whose count (field indexLenght for the
\* triangles, lineIndexLenght for the lines) is greater than 0, at the offset
\* the earlier calls have added up; a count that is not a number is not
\* greater than 0.  Each call is [part, offset, count], the offset in indices.
RECURSIVE drawElements(_, _, _, _)
drawElements(indexInformation, field, k, offset) ==
  IF k > Len(indexInformation) THEN <<>>
  ELSE LET count == indexInformation[k][field]
       IN  IF count # NaN /\ count > 0
           THEN <<[part |-> k, offset |-> offset, count |-> count]>>
                  \o drawElements(indexInformation, field, k + 1, offset + count)
           ELSE drawElements(indexInformation, field, k + 1, offset)

\* GraphicsEngine.add(renderObject)
EngineAdd(e, heap, id) ==
  [e EXCEPT !.renderObjects = Append(@, id), !.buffers = initBuffers(@, heap, id)]

\* GraphicsEngine.remove(renderObject)
EngineRemove(e, id) ==
  [e EXCEPT !.renderObjects = SelectSeq(@, LAMBDA obj : obj # id),
            !.buffers = removeBuffer(@, id)]

\* A refresh that leaves the buffers as they are.
EngineRefreshOmitted(e, heap, id) == e

\* GraphicsEngine.refresh(renderObject)
EngineRefresh(e, heap, id) == [e EXCEPT !.buffers = refreshBuffers(@, heap, id)]

\* GraphicsEngine.render()
EngineRender(e) == [e EXCEPT !.drawn = renderAll(e.buffers)]

\* new GraphicsEngine(...) after init(): the camera is at (0, 2, 10) and looks
\* at the origin.
GraphicsEngine ==
  [renderObjects |-> <<>>, cameraPosition |-> <<0, 2 * One, 10 * One>>,
   lookAtPosition |-> <<0, 0, 0>>, buffers |-> <<>>, drawn |-> <<>>]

getCameraPosition(e) == e.cameraPosition

\* GraphicsEngine.setCameraCenter(cameraCenter)
setCameraCenter(e, cameraCenter) == [e EXCEPT !.lookAtPosition = cameraCenter]

\* GraphicsEngine.rotateCamera(rotationMatrix)
rotateCamera(e, rotationMatrix) ==
  [e EXCEPT !.cameraPosition = transform(rotationMatrix, @)]

\* GraphicsEngine.traslateCamera(direction, invert): the camera and the point
\* it looks at move by 0.2 along the direction, backwards when invert is set.
traslateCamera(e, direction, invert) ==
  LET scale == IF invert THEN 0 - 2 * (FloatScale \div 10) ELSE 2 * (FloatScale \div 10)
      d     == normalize(direction)
      finalDirection == <<FTimes(d[1], scale), FTimes(d[2], scale), FTimes(d[3], scale)>>
      add(v) == <<Plus(v[1], finalDirection[1]), Plus(v[2], finalDirection[2]),
                  Plus(v[3], finalDirection[3])>>
  IN  [e EXCEPT !.cameraPosition = add(@), !.lookAtPosition = add(@)]

\* GraphicsEngine.resetView()
resetView(e) ==
  [e EXCEPT !.cameraPosition = <<0, 2 * One, 10 * One>>, !.lookAtPosition = <<0, 0, 0>>]

\* ------------------------------------------------------------------------
\* The parser and the flattener as a state machine: a material library and a
\* geometry text are drawn, ObjectParser is constructed on them and
\* ObjectReader.getObject is called on them.
\* ------------------------------------------------------------------------

VARIABLES mtlText, objText, parser, constructed, loaded, loadDone

parseVars == <<mtlText, objText, parser, constructed, loaded, loadDone>>

\* The scene.  heap: the render objects created so far.  engine: GraphicsEngine
\* with its renderer.  movingObject: ObjectsMover.movingObject.  menu: the
\* children of '#menu ul', each the object of the item and whether its Move
\* button is disabled.  moveControlsShown: moveControlsMenu.style.display is
\* 'block'.  currentInterval, delta: the fields of MoveObjectHandlers; timers:
\* the intervals setInterval has started and clearInterval has not cleared;
\* ticks: the timer callbacks run so far.
VARIABLES heap, engine, movingObject, menu, moveControlsShown,
          currentInterval, timers, delta, ticks

\* AddObjectHandlers.  objContent, mtlContent: its fields.  mtlListener: the
\* 'change' listener of mtlFileInput is registered.  reads: the FileReader
\* reads in flight.  History: picked[u], the files the user chose for upload
\* u; mtlDialogFor, the upload whose material dialog was opened last;
\* producedBy[i], the upload whose material read created heap[i]; log, the
\* steps of the load cycles in the order they ran; rejected, the uploads
\* whose load was rejected.
VARIABLES objContent, mtlContent, mtlListener, reads,
          picked, mtlDialogFor, producedBy, log, rejected

\* TextureUploadHandlers.  textureLoads: the loads in flight, each with its
\* object, its slot and the asynchronous step it waits for.  nLoads: the loads
\* started so far; a load's image is named by its number.  History:
\* completed[i], for each slot of heap[i] the loads that completed, in the
\* order they did.
VARIABLES textureLoads, nLoads, completed

\* History: the objects that were removed while they were the object being
\* moved.
VARIABLE removedMovers

engineVars == <<heap, engine>>

moveVars == <<movingObject, menu, moveControlsShown, currentInterval, timers, delta, ticks>>

addVars == <<objContent, mtlContent, mtlListener, reads, picked, mtlDialogFor, producedBy,
             log, rejected>>

textureVars == <<textureLoads, nLoads, completed>>

sceneVars == <<engineVars, moveVars, addVars, textureVars, removedMovers>>

vars == <<parseVars, sceneVars>>

\* this.delta = 0.005
InitialDelta == 5 * (FloatScale \div 1000)

\* The page after initializeAndRender(): the handlers are constructed and
\* registered, the scene is empty and has been rendered once.
SceneInit ==
  /\ heap = <<>>
  /\ engine = EngineRender(GraphicsEngine)
  /\ movingObject = 0
  /\ menu = <<>>
  /\ moveControlsShown = FALSE
  /\ currentInterval = 0
  /\ timers = <<>>
  /\ delta = InitialDelta
  /\ ticks = 0
  /\ objContent = Absent
  /\ mtlContent = Absent
  /\ mtlListener = FALSE
  /\ reads = {}
  /\ picked = <<>>
  /\ mtlDialogFor = 0
  /\ producedBy = <<>>
  /\ log = <<>>
  /\ rejected = {}
  /\ textureLoads = {}
  /\ nLoads = 0
  /\ completed = <<>>
  /\ removedMovers = {}

\* The longest material library and the longest geometry body, in lines.
MaxMtlLines == 2

MaxObjLines == 3

MtlLines ==
  { <<"newmtl", "A">>, <<"newmtl", "1">>, <<"Kd", "1", "0", "0">>,
    <<"map_Kd", "dir/ghost.png">>, <<"bogus">> }

ObjLines ==
  { <<"o", "a">>, <<"g", "b">>, <<"f", "1", "2", "3">>, <<"l", "1", "2">>,
    <<"usemtl", "A">>, <<"usemtl", "1">>, <<"usemtl", "ghost">>, <<"bogus">> }

\* The three vertices every geometry text starts with.
VertexLines == << <<"v", "0", "0", "0">>, <<"v", "1", "0", "0">>, <<"v", "0", "1", "0">> >>

TextureNames == <<"tex.png">>

SeqsUpTo(S, n) == UNION {[1..k -> S] : k \in 0..n}

MtlTexts == SeqsUpTo(MtlLines, MaxMtlLines)

ObjTexts == {VertexLines \o body : body \in SeqsUpTo(ObjLines, MaxObjLines)}

ParseInit ==
  /\ mtlText \in MtlTexts
  /\ objText \in ObjTexts
  /\ parser = NewParser(TextureNames)
  /\ constructed = FALSE
  /\ loaded = [threw |-> FALSE, object |-> Absent]
  /\ loadDone = FALSE
  /\ SceneInit

\* new ObjectParser(objText, mtlText, textures)
Construct ==
  /\ ~constructed
  /\ parser' = ObjectParser(objText, mtlText, TextureNames)
  /\ constructed' = TRUE
  /\ UNCHANGED <<mtlText, objText, loaded, loadDone, sceneVars>>

\* new ObjectReader(objText, mtlText, textures).getObject()
Load ==
  /\ ~loadDone
  /\ loaded' = getObject(Present(objText), Present(mtlText), Present(TextureNames))
  /\ loadDone' = TRUE
  /\ UNCHANGED <<mtlText, objText, parser, constructed, sceneVars>>

ParseNext == Construct \/ Load

ParseSpec == ParseInit /\ [][ParseNext]_vars

\* ------------------------------------------------------------------------
\* The page as a state machine: one action per event handler or callback.
\* A handler runs to completion; the continuation of an await on a settled
\* promise is a microtask and runs before the next event, so it belongs to
\* the action of its callback.
\* ------------------------------------------------------------------------

\* The uploads, the texture loads and the timers a behaviour may start.
MaxUploads == 2

MaxLoads == 2

MaxTimers == 2

\* The uploads, texture loads and timers a behaviour may start in all.
MaxStarted == 3

Started == Len(picked) + nLoads + Len(timers)

\* The geometry files and the material files the user chooses among: two
\* triangles that differ in their flattened vertices, and a file the parser
\* throws on.
ObjFiles ==
  { VertexLines \o << <<"o", "a">>, <<"f", "1", "2", "3">> >>,
    VertexLines \o << <<"o", "a">>, <<"f", "3", "2", "1">> >>,
    VertexLines \o << <<"f", "1", "2", "3">> >> }

MtlFiles == { << <<"newmtl", "A">> >> }

\* The texture set of an upload: the third argument of new ObjectReader.  The
\* call in #handleFileUpload passes none; a caller that follows the signature
\* of ObjectReader passes the ordered name-to-image mapping.
UploadTextures == {Absent, Present(TextureNames)}

\* #uploadObjectFile up to its await: the 'change' event of objFileInput
\* with a file chosen.
ChangeObjFile(f) ==
  /\ Len(picked) < MaxUploads
  /\ Started < MaxStarted
  /\ picked' = Append(picked, [obj |-> f, mtl |-> Absent])
  /\ reads' = reads \cup {[kind |-> "obj", upload |-> Len(picked) + 1, text |-> f]}
  /\ UNCHANGED <<objContent, mtlContent, mtlListener, mtlDialogFor, producedBy, log, rejected>>
  /\ UNCHANGED <<removedMovers, parseVars, engineVars, moveVars, textureVars>>

\* #uploadObjectFile after its await: the read of the geometry file is done.
ObjFileRead(r) ==
  /\ r \in reads
  /\ r.kind = "obj"
  /\ objContent' = Present(r.text)
  /\ mtlListener' = TRUE
  /\ mtlDialogFor' = r.upload
  /\ reads' = reads \ {r}
  /\ UNCHANGED <<mtlContent, picked, producedBy, log, rejected>>
  /\ UNCHANGED <<removedMovers, parseVars, engineVars, moveVars, textureVars>>

\* #uploadMaterialFile up to its await: the 'change' event of mtlFileInput
\* with a file chosen; the listener was registered with once: true.
ChangeMtlFile(f) ==
  /\ mtlListener
  /\ mtlListener' = FALSE
  /\ picked' = [picked EXCEPT ![mtlDialogFor].mtl = Present(f)]
  /\ reads' = reads \cup {[kind |-> "mtl", upload |-> mtlDialogFor, text |-> f]}
  /\ UNCHANGED <<objContent, mtlContent, mtlDialogFor, producedBy, log, rejected>>
  /\ UNCHANGED <<removedMovers, parseVars, engineVars, moveVars, textureVars>>

\* A #handleFileUpload that appends the menu item before it awaits the object.
handleFileUploadMenuFirst(u, mtl, textures) ==
  \E result \in {getObject(objContent, mtl, textures)} :
    LET id == Len(heap) + 1
    IN  /\ menu' = Append(menu, [obj |-> id, moveDisabled |-> movingObject # 0])
        /\ IF result.threw
           THEN /\ mtlContent' = mtl
                /\ rejected' = rejected \cup {u}
                /\ UNCHANGED <<objContent, producedBy, log, completed>>
                /\ UNCHANGED engineVars
           ELSE /\ heap' = Append(heap, result.object.value)
                /\ engine' = EngineRender(EngineAdd(engine, heap', id))
                /\ objContent' = Absent
                /\ mtlContent' = Absent
                /\ producedBy' = Append(producedBy, u)
                /\ log' = log \o << <<u, "parse">>, <<u, "flatten">>, <<u, "add">>,
                                     <<u, "render">> >>
                /\ completed' = Append(completed, [diffuse |-> <<>>, normal |-> <<>>,
                                                   specular |-> <<>>])
                /\ UNCHANGED rejected

\* #handleFileUpload, called for upload u after this.mtlContent was set to
\* mtl.  A rejected getObject ends it at the await.
handleFileUpload(u, mtl, textures) ==
  \E result \in {getObject(objContent, mtl, textures)} :
    LET id == Len(heap) + 1
    IN  IF result.threw
      THEN /\ mtlContent' = mtl
           /\ rejected' = rejected \cup {u}
           /\ UNCHANGED <<objContent, producedBy, log, completed>>
           /\ UNCHANGED <<engineVars, menu>>
      ELSE /\ heap' = Append(heap, result.object.value)
           /\ menu' = Append(menu, [obj |-> id, moveDisabled |-> movingObject # 0])
           /\ engine' = EngineRender(EngineAdd(engine, heap', id))
           /\ objContent' = Absent
           /\ mtlContent' = Absent
           /\ producedBy' = Append(producedBy, u)
           /\ log' = log \o << <<u, "parse">>, <<u, "flatten">>, <<u, "add">>, <<u, "render">> >>
           /\ completed' = Append(completed, [diffuse |-> <<>>, normal |-> <<>>, specular |-> <<>>])
           /\ UNCHANGED rejected

\* #uploadMaterialFile after its await: the read of the material file is done.
MtlFileRead(r, textures) ==
  /\ r \in reads
  /\ r.kind = "mtl"
  /\ reads' = reads \ {r}
  /\ handleFileUpload(r.upload, Present(r.text), textures)
  /\ UNCHANGED <<mtlListener, picked, mtlDialogFor>>
  /\ UNCHANGED <<removedMovers, parseVars, movingObject, moveControlsShown, currentInterval, timers, delta,
                 ticks, textureLoads, nLoads>>

\* The Move buttons of the menu ('#menu button.move-btn'), all disabled or
\* all enabled.
SetMoveButtons(items, disabled) ==
  [i \in 1..Len(items) |-> [items[i] EXCEPT !.moveDisabled = disabled]]

\* The mover slot, the move controls and the menu, which the handlers below
\* change together.
Ui == [movingObject |-> movingObject, moveControlsShown |-> moveControlsShown, menu |-> menu]

SetUi(ui) ==
  /\ movingObject' = ui.movingObject
  /\ moveControlsShown' = ui.moveControlsShown
  /\ menu' = ui.menu

finishMoveKeepsButtons(ui) ==
  [movingObject |-> 0, moveControlsShown |-> FALSE, menu |-> ui.menu]

\* MoveObjectHandlers.finishMove
finishMove(ui) ==
  [movingObject |-> 0, moveControlsShown |-> FALSE, menu |-> SetMoveButtons(ui.menu, FALSE)]

\* MoveObjectHandlers.#handleMoveObject(renderObject)
handleMoveObject(ui, renderObject) ==
  IF ui.movingObject # 0
  THEN finishMove(ui)
  ELSE [movingObject |-> renderObject, moveControlsShown |-> TRUE,
        menu |-> SetMoveButtons(ui.menu, TRUE)]

\* A click on the Move button of the i-th menu item; a disabled button gets
\* no click.
ClickMove(i) ==
  /\ i \in 1..Len(menu)
  /\ ~menu[i].moveDisabled
  /\ SetUi(handleMoveObject(Ui, menu[i].obj))
  /\ UNCHANGED <<currentInterval, timers, delta, ticks>>
  /\ UNCHANGED <<removedMovers, parseVars, engineVars, addVars, textureVars>>

\* A click on the finishMove button, which is inside the move controls.
ClickFinishMove ==
  /\ moveControlsShown
  /\ SetUi(finishMove(Ui))
  /\ UNCHANGED <<currentInterval, timers, delta, ticks>>
  /\ UNCHANGED <<removedMovers, parseVars, engineVars, addVars, textureVars>>

\* A removal that leaves the mover slot alone.
DeselectOmitted(ui, renderObject) == ui

\* RemoveObjectHandlers.#remove, the block that deselects the object when it is
\* the one being moved: objectsMover.remove() and finishMove().
Deselect(ui, renderObject) ==
  IF ui.movingObject # 0 /\ ui.movingObject = renderObject
  THEN finishMove([ui EXCEPT !.movingObject = 0])
  ELSE ui

\* RemoveObjectHandlers.#remove(menuItem, menuList, renderObject): a click on
\* the Remove button of the i-th menu item.
ClickRemove(i) ==
  /\ i \in 1..Len(menu)
  /\ LET renderObject == menu[i].obj
         ui == Deselect(Ui, renderObject)
     IN  /\ SetUi([ui EXCEPT !.menu = [k \in 1..(Len(ui.menu) - 1) |->
                                         IF k < i THEN ui.menu[k] ELSE ui.menu[k + 1]]])
         /\ engine' = EngineRender(EngineRemove(engine, renderObject))
         /\ removedMovers' = IF movingObject = renderObject
                              THEN removedMovers \cup {renderObject} ELSE removedMovers
  /\ UNCHANGED <<heap, currentInterval, timers, delta, ticks>>
  /\ UNCHANGED <<parseVars, addVars, textureVars>>

\* The move controls the user presses among: each starts
\* startContinuousAction on translate(x, y, z) or rotate(x, y, z).
Controls ==
  { [kind |-> "translate", x |-> 0, y |-> -1, z |-> 0],
    [kind |-> "rotate", x |-> 0, y |-> 0, z |-> 1] }

\* startContinuousAction(action): a mousedown on a move control, which is shown
\* with the move controls menu.
MouseDown(c) ==
  /\ moveControlsShown
  /\ Len(timers) < MaxTimers
  /\ Started < MaxStarted
  /\ timers' = Append(timers, [control |-> c, cleared |-> FALSE])
  /\ currentInterval' = Len(timers) + 1
  /\ UNCHANGED <<movingObject, menu, moveControlsShown, delta, ticks>>
  /\ UNCHANGED <<removedMovers, parseVars, engineVars, addVars, textureVars>>

\* stopContinuousAction(): a mouseup or a mouseleave on a move control.
stopContinuousAction ==
  /\ moveControlsShown
  /\ currentInterval # 0
  /\ timers' = [timers EXCEPT ![currentInterval].cleared = TRUE]
  /\ currentInterval' = 0
  /\ delta' = InitialDelta
  /\ UNCHANGED <<movingObject, menu, moveControlsShown, ticks>>
  /\ UNCHANGED <<removedMovers, parseVars, engineVars, addVars, textureVars>>

\* this.delta <= 0.2 ? this.delta*1.1 : 0.2
NextDelta(d) ==
  IF d <= 2 * (FloatScale \div 10) THEN FTimes(d, 11 * (FloatScale \div 10))
  ELSE 2 * (FloatScale \div 10)

\* The end of every handler that changed the object being moved:
\* engine.refresh(object); engine.render().
RefreshAndRender(object) ==
  /\ heap' = [heap EXCEPT ![movingObject] = object]
  /\ engine' = EngineRender(EngineRefresh(engine, heap', movingObject))

\* MoveObjectHandlers.translate(x, y, z)
translate(x, y, z) ==
  IF movingObject # 0
  THEN /\ RefreshAndRender(move(heap[movingObject], <<x * delta, y * delta, z * delta>>))
       /\ delta' = NextDelta(delta)
  ELSE UNCHANGED <<heap, engine, delta>>

\* MoveObjectHandlers.rotate(x, y, z), named after the button kind because
\* rotate is RenderObject.rotate.
rotateObject(x, y, z) ==
  IF movingObject # 0
  THEN /\ RefreshAndRender(rotate(heap[movingObject], x * delta, y * delta, z * delta))
       /\ delta' = NextDelta(delta)
  ELSE UNCHANGED <<heap, engine, delta>>

\* A callback of the interval t, every 10 ms until it is cleared.
TimerTick(t) ==
  /\ t \in 1..Len(timers)
  /\ ~timers[t].cleared
  /\ ticks < MaxTicks
  /\ ticks' = ticks + 1
  /\ LET c == timers[t].control
     IN  IF c.kind = "translate" THEN translate(c.x, c.y, c.z) ELSE rotateObject(c.x, c.y, c.z)
  /\ UNCHANGED <<movingObject, menu, moveControlsShown, currentInterval, timers>>
  /\ UNCHANGED <<removedMovers, parseVars, addVars, textureVars>>

\* MoveObjectHandlers.teleportHere(): a click on the teleportHere button.
ClickTeleportHere ==
  /\ moveControlsShown
  /\ IF movingObject # 0
     THEN RefreshAndRender(setPosition(heap[movingObject], getCameraPosition(engine)))
     ELSE UNCHANGED <<heap, engine>>
  /\ UNCHANGED <<removedMovers, moveVars, parseVars, addVars, textureVars>>

\* MoveObjectHandlers.resetTransformations(): a click on the
\* resetTransformations button.
ClickResetTransformations ==
  /\ moveControlsShown
  /\ IF movingObject # 0
     THEN RefreshAndRender(resetTransformations(heap[movingObject]))
     ELSE UNCHANGED <<heap, engine>>
  /\ UNCHANGED <<removedMovers, moveVars, parseVars, addVars, textureVars>>

TextureTypes == {"diffuse", "normal", "specular"}

\* #handleTextureUpload(type, renderObject) up to reader.readAsDataURL(file): a
\* click on a texture button of the i-th menu item and the 'change' event of
\* the file input it creates.
ChangeTextureFile(i, type) ==
  /\ i \in 1..Len(menu)
  /\ nLoads < MaxLoads
  /\ Started < MaxStarted
  /\ nLoads' = nLoads + 1
  /\ textureLoads' = textureLoads \cup
       {[id |-> nLoads + 1, obj |-> menu[i].obj, type |-> type, stage |-> "read"]}
  /\ UNCHANGED completed
  /\ UNCHANGED <<removedMovers, parseVars, engineVars, moveVars, addVars>>

\* reader.onload up to the await of textureReader.read(): the file is read as
\* a data URL, and TextureReader.read fetches it and starts decoding the image.
TextureStep(l) ==
  /\ l \in textureLoads
  /\ l.stage = "read"
  /\ textureLoads' = (textureLoads \ {l}) \cup {[l EXCEPT !.stage = "image"]}
  /\ UNCHANGED <<nLoads, completed>>
  /\ UNCHANGED <<removedMovers, parseVars, engineVars, moveVars, addVars>>

\* reader.onerror, a failed fetch or textureImg.onerror: the load ends and
\* nothing is applied.
TextureFailed(l) ==
  /\ l \in textureLoads
  /\ textureLoads' = textureLoads \ {l}
  /\ UNCHANGED <<nLoads, completed>>
  /\ UNCHANGED <<removedMovers, parseVars, engineVars, moveVars, addVars>>

\* A switch that sends the specular texture to the normal slot.
SetTextureSwapped(o, type, texture) ==
  CASE type = "diffuse"  -> setDiffuseTexture(o, texture)
    [] type = "specular" -> setNormalTexture(o, texture)
    [] type = "normal"   -> setNormalTexture(o, texture)

\* The switch on type in reader.onload.
SetTexture(o, type, texture) ==
  CASE type = "diffuse"  -> setDiffuseTexture(o, texture)
    [] type = "specular" -> setSpecularTexture(o, texture)
    [] type = "normal"   -> setNormalTexture(o, texture)

\* reader.onload after the await: textureImg.onload resolved the promise, the
\* texture is set, the buffers of the object are refreshed and the scene is
\* rendered, whether or not the object is still in the scene.
TextureLoaded(l) ==
  /\ l \in textureLoads
  /\ l.stage = "image"
  /\ textureLoads' = textureLoads \ {l}
  /\ heap' = [heap EXCEPT ![l.obj] = SetTexture(@, l.type, l.id)]
  /\ engine' = EngineRender(EngineRefresh(engine, heap', l.obj))
  /\ completed' = [completed EXCEPT ![l.obj][l.type] = Append(@, l.id)]
  /\ UNCHANGED nLoads
  /\ UNCHANGED <<removedMovers, parseVars, moveVars, addVars>>

SceneNext ==
  \/ \E f \in ObjFiles : ChangeObjFile(f)
  \/ \E r \in reads : ObjFileRead(r)
  \/ \E f \in MtlFiles : ChangeMtlFile(f)
  \/ \E r \in reads, textures \in UploadTextures : MtlFileRead(r, textures)
  \/ \E i \in 1..Len(menu) : ClickMove(i)
  \/ ClickFinishMove
  \/ \E i \in 1..Len(menu) : ClickRemove(i)
  \/ \E c \in Controls : MouseDown(c)
  \/ stopContinuousAction
  \/ \E t \in 1..Len(timers) : TimerTick(t)
  \/ ClickTeleportHere
  \/ ClickResetTransformations
  \/ \E i \in 1..Len(menu), type \in TextureTypes : ChangeTextureFile(i, type)
  \/ \E l \in textureLoads : TextureStep(l)
  \/ \E l \in textureLoads : TextureFailed(l)
  \/ \E l \in textureLoads : TextureLoaded(l)

\* The page with no parser run of its own: the parser runs inside the uploads.
Init ==
  /\ mtlText = <<>>
  /\ objText = VertexLines
  /\ parser = NewParser(TextureNames)
  /\ constructed = FALSE
  /\ loaded = [threw |-> FALSE, object |-> Absent]
  /\ loadDone = FALSE
  /\ SceneInit

Next == SceneNext

Spec == Init /\ [][Next]_vars

\* ------------------------------------------------------------------------
\* What the texts say, read off the lines without the parser
\* ------------------------------------------------------------------------

\* The material names the library declares, in order of first declaration.
RECURSIVE DeclaredMaterials(_)
DeclaredMaterials(text) ==
  IF text = <<>> THEN <<>>
  ELSE LET parts == TrimSplit(text[Len(text)])
           before == DeclaredMaterials(SubSeq(text, 1, Len(text) - 1))
       IN  IF parts[1] = "newmtl" /\ Len(parts) >= 2
              /\ \A i \in 1..Len(before) : before[i] # parts[2]
           THEN Append(before, parts[2])
           ELSE before

SeqToSet(q) == {q[i] : i \in 1..Len(q)}

\* The f lines of a geometry text in file order, each with the part it falls in
\* ("" before the first o/g line), the name of the last usemtl line before it
\* ("" when there is none) and its number of vertices.
RECURSIVE FaceLines(_)
FaceLines(text) ==
  IF text = <<>> THEN [part |-> "", usemtl |-> "", faces |-> <<>>]
  ELSE LET before == FaceLines(SubSeq(text, 1, Len(text) - 1))
           parts  == TrimSplit(text[Len(text)])
       IN  CASE parts[1] \in {"o", "g"} ->
                  [before EXCEPT !.part = IF Len(parts) >= 2 THEN parts[2] ELSE "default"]
             [] parts[1] = "usemtl" /\ Len(parts) >= 2 ->
                  [before EXCEPT !.usemtl = parts[2]]
             [] parts[1] = "f" ->
                  [before EXCEPT !.faces = Append(@, [part |-> before.part,
                                                      usemtl |-> before.usemtl,
                                                      n |-> Len(parts) - 1])]
             [] OTHER -> before

HasPartLine(text) == \E i \in 1..Len(text) : TrimSplit(text[i])[1] \in {"o", "g"}

HasFaceOrLine(text) == \E i \in 1..Len(text) : TrimSplit(text[i])[1] \in {"f", "l"}

\* For every flattened vertex, in the order of the flattened arrays (part by
\* part, the faces of a part in file order), the name of the usemtl line in
\* force at its face.
FlattenedUsemtl(partNames, text) ==
  LET faces == FaceLines(text).faces
      ofPart(name) == SelectSeq(faces, LAMBDA f : f.part = name)
      perFace(f) == [k \in 1..f.n |-> f.usemtl]
  IN  Flatten([i \in 1..Len(partNames) |->
                 Flatten([j \in 1..Len(ofPart(partNames[i])) |-> perFace(ofPart(partNames[i])[j])])])

MaterialNames(materials) == [i \in 1..Len(materials) |-> materials[i].name]

\* ------------------------------------------------------------------------
\* The claims about the parser
\* ------------------------------------------------------------------------

\* C7: parse anomalies are never fatal: whatever keywords the lines of the two
\* texts carry and in whatever order, constructing ObjectParser does not throw
\* and goes through every line of both texts.
C7_ParseNeverFatal ==
  constructed =>
    /\ ~parser.threw
    /\ parser.mtlRead = Len(mtlText)
    /\ parser.objRead = Len(objText)

\* C8: every flattened vertex of a face parsed before any usemtl line, or after
\* a usemtl line naming a material the library does not declare, has material
\* index 0, and the unresolved name is reported without an exception.
C8_DefaultMaterialIndex ==
  (constructed /\ loadDone /\ ~parser.threw /\ ~loaded.threw) =>
    LET usemtl   == FlattenedUsemtl(getObjectNames(parser), objText)
        declared == SeqToSet(DeclaredMaterials(mtlText)) \cup {"default"}
        indices  == loaded.object.value.materialIndexData
    IN  /\ Len(indices) = Len(usemtl)
        /\ \A k \in 1..Len(indices) : usemtl[k] \notin declared => indices[k] = 0
        /\ (\E i \in 1..Len(objText) : objText[i] = <<"usemtl", "ghost">>)
             => \E j \in 1..Len(parser.reported) : parser.reported[j] = "Couldn't find material"

\* C9: a geometry text with faces or lines and no o/g line parses, and its
\* faces and lines are those of one part named default; the triangle text with
\* an empty library gives one part, 3 indices and 3 flattened vertices.
C9_ImplicitDefaultPart ==
  /\ (constructed /\ ~parseMTL(NewParser(TextureNames), mtlText).threw
        /\ ~HasPartLine(objText) /\ HasFaceOrLine(objText)) =>
       /\ ~parser.threw
       /\ getObjectNames(parser) = <<"default">>
  /\ (loadDone /\ mtlText = <<>> /\ objText = VertexLines \o << <<"f", "1", "2", "3">> >>) =>
       /\ ~loaded.threw
       /\ Len(loaded.object.value.parts) = 1
       /\ Len(loaded.object.value.indexData) = 3
       /\ Len(loaded.object.value.vertexData) = 9

\* C10: the material table handed to the backend is the synthetic default
\* material followed by the materials of the library in order of declaration,
\* whatever their names, and the material index of the faces after usemtl X is
\* the position of X in that table.
C10_MaterialTableOrder ==
  (constructed /\ loadDone /\ ~parser.threw /\ ~loaded.threw) =>
    LET table   == MaterialNames(getMaterials(parser).materials)
        usemtl  == FlattenedUsemtl(getObjectNames(parser), objText)
        indices == loaded.object.value.materialIndexData
    IN  /\ table = <<"default">> \o DeclaredMaterials(mtlText)
        /\ \A k \in 1..Len(indices) :
             usemtl[k] \in SeqToSet(DeclaredMaterials(mtlText))
               => indices[k] = IndexOf(table, usemtl[k])

\* ------------------------------------------------------------------------
\* The claims about the scene
\* ------------------------------------------------------------------------

InScene(id) == \E k \in 1..Len(engine.renderObjects) : engine.renderObjects[k] = id

StaticData(o) ==
  [vertexData |-> o.vertexData, textureData |-> o.textureData,
   normalsData |-> o.normalsData, materials |-> o.materials, indexData |-> o.indexData,
   lineIndexData |-> o.lineIndexData, materialIndexData |-> o.materialIndexData,
   parts |-> o.parts]

\* The load of the files the user chose for upload u.
OwnObject(u) == getObject(Present(picked[u].obj), picked[u].mtl, Present(TextureNames))

LastOf(q) == IF q = <<>> THEN 0 ELSE q[Len(q)]

HoldsTexture(textures, id) ==
  textures.diffuseTexture = id \/ textures.normalTexture = id \/ textures.specularTexture = id

MaxGeomLines == 4

\* The pool every geometry text starts with: four vertices, a normal and a
\* texture coordinate.
PoolLines ==
  << <<"v", "0", "0", "0">>, <<"v", "1", "0", "0">>, <<"v", "0", "1", "0">>,
     <<"v", "1", "1", "0">>, <<"vn", "1", "0", "0">>, <<"vt", "1", "0">> >>

GeomLines ==
  { <<"o", "a">>, <<"o", "1">>, <<"g", "buffer">>,
    <<"f", "1", "2", "3">>, <<"f", "3", "2", "1">>, <<"f", "1", "2", "4", "3">>,
    <<"f", "1//1", "2//1", "3//1">>, <<"f", "1/1", "2/1", "3/1">>,
    <<"f", "1", "2", "9">>, <<"l", "1", "2", "3">>, <<"usemtl", "A">> }

GeomTexts == {PoolLines \o body : body \in SeqsUpTo(GeomLines, MaxGeomLines)}

\* The material library that goes with the geometry texts.
GeomMtl == << <<"newmtl", "A">> >>

FlattenInit ==
  /\ mtlText = GeomMtl
  /\ objText \in GeomTexts
  /\ parser = NewParser(TextureNames)
  /\ constructed = FALSE
  /\ loaded = [threw |-> FALSE, object |-> Absent]
  /\ loadDone = FALSE
  /\ SceneInit

FlattenSpec == FlattenInit /\ [][ParseNext]_vars

\* The o/g, f and l lines of a geometry text, read off the lines without the
\* parser: the part names in order of first appearance, and the f and l lines
\* in file order, each with the part it falls in ("" before the first o/g
\* line) and its tokens.
RECURSIVE PartLines(_)
PartLines(text) ==
  IF text = <<>> THEN [part |-> "", names |-> <<>>, faces |-> <<>>, lines |-> <<>>]
  ELSE LET before == PartLines(SubSeq(text, 1, Len(text) - 1))
           parts  == TrimSplit(text[Len(text)])
           name   == IF Len(parts) >= 2 THEN parts[2] ELSE "default"
       IN  CASE parts[1] \in {"o", "g"} ->
                  [before EXCEPT !.part = name,
                                 !.names = IF name \in SeqToSet(@) THEN @ ELSE Append(@, name)]
             [] parts[1] = "f" ->
                  [before EXCEPT !.faces = Append(@, [part |-> before.part, tokens |-> Tail(parts)])]
             [] parts[1] = "l" ->
                  [before EXCEPT !.lines = Append(@, [part |-> before.part, tokens |-> Tail(parts)])]
             [] OTHER -> before

\* The f lines of a part, in file order.
FacesOfPart(text, name) == SelectSeq(PartLines(text).faces, LAMBDA f : f.part = name)

\* The l lines of a part, in file order.
LinesOfPart(text, name) == SelectSeq(PartLines(text).lines, LAMBDA l : l.part = name)

\* The vertex number an f token starts with.
TokenVertex(tok) == parseInt(SlashFields(tok)[1])

\* C11: the parts are listed in the order in which their names first appear in
\* the file, whatever the names are; a name seen again creates no part, and the
\* faces of a part are all the faces under its o/g lines, in file order.
C11_PartsInFirstSeenOrder ==
  /\ (constructed /\ ~parser.threw) =>
       /\ getObjectNames(parser) = PartLines(objText).names
       /\ \A name \in SeqToSet(PartLines(objText).names) :
            LET faces == GetOwn(parser.objects, name).faces
                want  == FacesOfPart(objText, name)
            IN  /\ Len(faces) = Len(want)
                /\ \A i \in 1..Len(faces) :
                     [k \in 1..Len(faces[i]) |-> faces[i][k].vertexIndex + 1]
                       = [k \in 1..Len(want[i].tokens) |-> TokenVertex(want[i].tokens[k])]
  /\ (loadDone /\ ~loaded.threw) =>
       Len(loaded.object.value.parts) = Len(PartLines(objText).names)

\* The face vertices of a geometry text in the order of the flattened arrays:
\* the parts in the order of partNames, the faces of a part in file order, the
\* vertices of a face in the order of its tokens.  Each entry has its token,
\* the number of its face in that order and the usemtl name in force.
FaceVerticesOf(partNames, text) ==
  LET faces == Flatten([i \in 1..Len(partNames) |-> FacesOfPart(text, partNames[i])])
  IN  Flatten([f \in 1..Len(faces) |->
                 [k \in 1..Len(faces[f].tokens) |-> [tok |-> faces[f].tokens[k], face |-> f]]])

\* Entries 3k-2 .. 3k of a flat array of triples, and 2k-1 .. 2k of one of pairs.
Triple(arr, k) == <<arr[3 * k - 2], arr[3 * k - 1], arr[3 * k]>>

Pair(arr, k) == <<arr[2 * k - 1], arr[2 * k]>>

\* The texture index and the normal index an f token carries, 0 when it has none.
TokenTexCoord(tok) ==
  LET d == SlashFields(tok) IN IF Len(d) >= 2 /\ d[2] # "" THEN parseInt(d[2]) ELSE 0

TokenNormal(tok) ==
  LET d == SlashFields(tok) IN IF Len(d) >= 3 /\ d[3] # "" THEN parseInt(d[3]) ELSE 0

\* C12: with N the number of face vertices of the model, the flattened arrays
\* have 3N positions, 3N normals, 2N texture coordinates and N material
\* indices, and entry k of each array belongs to the k-th face vertex in part,
\* face and vertex order, whether or not the face carries normal or texture
\* indices.
C12_FlattenedArraysInLockstep ==
  (constructed /\ ~parser.threw /\ ~NormalsThrow(parser)) =>
    LET want      == FaceVerticesOf(getObjectNames(parser), objText)
        N         == Len(want)
        usemtl    == FlattenedUsemtl(getObjectNames(parser), objText)
        positions == getVertices(parser)
        normals   == getNormals(parser)
        texCoords == getTexCoords(parser)
        indices   == getMaterials(parser).indices
    IN  /\ Len(positions) = 3 * N
        /\ Len(normals) = 3 * N
        /\ Len(texCoords) = 2 * N
        /\ Len(indices) = N
        /\ \A k \in 1..N :
             LET v == TokenVertex(want[k].tok)
                 t == TokenTexCoord(want[k].tok)
                 n == TokenNormal(want[k].tok)
             IN  /\ 3 * v <= Len(parser.vertices) => Triple(positions, k) = Triple(parser.vertices, v)
                 /\ Pair(texCoords, k) = IF t = 0 THEN <<0, 0>> ELSE Pair(parser.texCoords, t)
                 /\ n # 0 => Triple(normals, k) = Triple(parser.normals, n)
                 /\ \A j \in 1..N :
                      want[j].face = want[k].face =>
                        /\ indices[j] = indices[k]
                        /\ n = 0 => Triple(normals, j) = Triple(normals, k)
                 /\ (usemtl[k] = "A") <=> (indices[k] = 1)
        /\ (loadDone /\ ~loaded.threw) =>
             /\ loaded.object.value.vertexData = positions
             /\ loaded.object.value.normalsData = normals
             /\ loaded.object.value.textureData = texCoords
             /\ loaded.object.value.materialIndexData = indices

\* A model of three faces was flattened: one with texture indices, one with
\* normal indices under a material, and a quad with neither.
C12_Witness ==
  /\ constructed /\ ~parser.threw /\ loadDone /\ ~loaded.threw
  /\ objText = PoolLines \o << <<"o", "a">>, <<"f", "1/1", "2/1", "3/1">>,
                               <<"f", "1//1", "2//1", "3//1">>, <<"f", "1", "2", "4", "3">> >>
  /\ Len(loaded.object.value.vertexData) = 30
  /\ Len(loaded.object.value.textureData) = 20

\* The fan of a face of n vertices whose first flattened vertex is b.
Fan(n, b) == Flatten([i \in 1..(n - 2) |-> <<b, b + i, b + i + 1>>])

\* The fans of the faces (given by their tokens) from flattened vertex b on.
RECURSIVE Fans(_, _)
Fans(faces, b) ==
  IF faces = <<>> THEN <<>>
  ELSE Fan(Len(Head(faces).tokens), b) \o Fans(Tail(faces), b + Len(Head(faces).tokens))

\* The faces of the text in the order of the flattened arrays.
FacesInPartOrder(partNames, text) ==
  Flatten([i \in 1..Len(partNames) |-> FacesOfPart(text, partNames[i])])

\* C13: getIndices triangulates every face as a fan around its first vertex,
\* (b, b+i, b+i+1) for i = 1..n-2, the faces in part order and then file order,
\* and every index it emits is below the number of flattened vertices.
C13_FanTriangulation ==
  (constructed /\ ~parser.threw) =>
    LET names  == getObjectNames(parser)
        result == getIndices(parser)
        N      == Len(FaceVerticesOf(names, objText))
    IN  /\ ~result.threw
        /\ result.buffer = Fans(FacesInPartOrder(names, objText), 0)
        /\ \A k \in 1..Len(result.buffer) : result.buffer[k] >= 0 /\ result.buffer[k] < N

\* The segments of the polylines (given by their tokens): consecutive pairs of
\* 0-based vertex numbers.
Segments(lines) ==
  Flatten([i \in 1..Len(lines) |->
    Flatten([j \in 1..(Len(lines[i].tokens) - 1) |->
               <<parseInt(lines[i].tokens[j]) - 1, parseInt(lines[i].tokens[j + 1]) - 1>>])])

RECURSIVE SumOf(_)
SumOf(q) == IF q = <<>> THEN 0 ELSE Head(q) + SumOf(Tail(q))

\* The slice of a buffer a draw call covers.
Covered(buffer, call) == SubSeq(buffer, call.offset + 1, call.offset + call.count)

\* C14: whatever the parts are named, the triangle counts of the parts add up
\* to the length of the triangle index buffer and the line counts to the
\* length of the line index buffer, and the draw call of each part covers
\* exactly the indices generated from the faces (the lines) of that part; a
\* part with no faces (no lines) gets no call.
C14_PartRangesCoverBuffers ==
  (constructed /\ ~parser.threw /\ loadDone) =>
    /\ ~loaded.threw
    /\ LET o     == loaded.object.value
           names == getObjectNames(parser)
           tri   == drawElements(o.parts, "indexLenght", 1, 0)
           lin   == drawElements(o.parts, "lineIndexLenght", 1, 0)
           base(k) == Len(FaceVerticesOf(SubSeq(names, 1, k - 1), objText))
       IN  /\ Len(o.parts) = Len(names)
           /\ \A k \in 1..Len(o.parts) :
                /\ o.parts[k].indexLenght # NaN
                /\ o.parts[k].lineIndexLenght # NaN
           /\ SumOf([k \in 1..Len(o.parts) |-> o.parts[k].indexLenght]) = Len(o.indexData)
           /\ SumOf([k \in 1..Len(o.parts) |-> o.parts[k].lineIndexLenght]) = Len(o.lineIndexData)
           /\ \A k \in 1..Len(names) :
                LET faces == Fans(FacesOfPart(objText, names[k]), base(k))
                    segs  == Segments(LinesOfPart(objText, names[k]))
                IN  /\ IF faces = <<>> THEN \A i \in 1..Len(tri) : tri[i].part # k
                       ELSE \E i \in 1..Len(tri) :
                              tri[i].part = k /\ Covered(o.indexData, tri[i]) = faces
                    /\ IF segs = <<>> THEN \A i \in 1..Len(lin) : lin[i].part # k
                       ELSE \E i \in 1..Len(lin) :
                              lin[i].part = k /\ Covered(o.lineIndexData, lin[i]) = segs

\* A pool vertex in whole units (the pool of the geometry texts has integer
\* coordinates).
PoolVertex(pool, v) == [i \in 1..3 |-> Triple(pool, v)[i] \div FloatScale]

\* n is the unit normal of the triangle a, b, c (vectors of integers): the
\* cross product of b - a and c - a divided by its length.
IsUnitNormal(n, a, b, c) ==
  LET u == [i \in 1..3 |-> b[i] - a[i]]
      v == [i \in 1..3 |-> c[i] - a[i]]
      cross == <<u[2] * v[3] - u[3] * v[2], u[3] * v[1] - u[1] * v[3], u[1] * v[2] - u[2] * v[1]>>
      square == cross[1] * cross[1] + cross[2] * cross[2] + cross[3] * cross[3]
  IN  \E len \in 1..square :
        /\ len * len = square
        /\ \A i \in 1..3 : n[i] * len = cross[i] * FloatScale

C16_NoReadBeyondPool ==
  (constructed /\ ~parser.threw) =>
    /\ ~NormalsThrow(parser)
    /\ \A k \in 1..Len(getVertices(parser)) : getVertices(parser)[k] # NaN
    /\ \A k \in 1..Len(getNormals(parser)) : getNormals(parser)[k] # NaN
    /\ \A k \in 1..Len(getTexCoords(parser)) : getTexCoords(parser)[k] # NaN

\* ------------------------------------------------------------------------
\* One render object under its mutators
\* ------------------------------------------------------------------------

\* The most calls of a mutator, or of a camera operation, in a behaviour.
MaxOps == 3

\* The object the reader builds from one triangle.
TriangleText == VertexLines \o << <<"o", "a">>, <<"f", "1", "2", "3">> >>

TriangleObject ==
  getObject(Present(TriangleText), Present(<<>>), Present(TextureNames)).object.value

\* The directions of the moves, the angles of the rotations about the object's
\* axes and the positions the object is set to.
MoveDirections == {<<One, 0, 0>>, <<0, 0 - One, 0>>, <<0, 0, 2 * One>>}

RotationAngles ==
  {<<HalfPi, 0, 0>>, <<0, HalfPi, 0>>, <<0, 0, HalfPi>>, <<0, 0, Pi>>, <<HalfPi, 0, HalfPi>>}

SetPositions == {<<0, 2 * One, 10 * One>>, <<0 - One, 0, 0>>}

\* The page with one object constructed and no handler running.
TransformInit ==
  /\ mtlText = <<>>
  /\ objText = TriangleText
  /\ parser = NewParser(TextureNames)
  /\ constructed = FALSE
  /\ loaded = [threw |-> FALSE, object |-> Absent]
  /\ loadDone = FALSE
  /\ heap = <<TriangleObject>>
  /\ engine = EngineRender(GraphicsEngine)
  /\ movingObject = 0
  /\ menu = <<>>
  /\ moveControlsShown = FALSE
  /\ currentInterval = 0
  /\ timers = <<>>
  /\ delta = InitialDelta
  /\ ticks = 0
  /\ objContent = Absent
  /\ mtlContent = Absent
  /\ mtlListener = FALSE
  /\ reads = {}
  /\ picked = <<>>
  /\ mtlDialogFor = 0
  /\ producedBy = <<>>
  /\ log = <<>>
  /\ rejected = {}
  /\ textureLoads = {}
  /\ nLoads = 0
  /\ completed = <<>>
  /\ removedMovers = {}

\* What a call on the object leaves alone.
OtherThanHeapAndLog ==
  <<parseVars, engine, moveVars, objContent, mtlContent, mtlListener, reads, picked,
    mtlDialogFor, producedBy, rejected, textureVars, removedMovers>>

\* heap[1].move(direction); the log records the call.
Move(direction) ==
  /\ Len(log) < MaxOps
  /\ heap' = [heap EXCEPT ![1] = move(@, direction)]
  /\ log' = Append(log, <<1, "move">>)
  /\ UNCHANGED OtherThanHeapAndLog

\* heap[1].rotate(x, y, z)
Rotate(angles) ==
  /\ Len(log) < MaxOps
  /\ heap' = [heap EXCEPT ![1] = rotate(@, angles[1], angles[2], angles[3])]
  /\ log' = Append(log, <<1, "rotate">>)
  /\ UNCHANGED OtherThanHeapAndLog

\* heap[1].setPosition(position)
SetPosition(position) ==
  /\ Len(log) < MaxOps
  /\ heap' = [heap EXCEPT ![1] = setPosition(@, position)]
  /\ log' = Append(log, <<1, "setPosition">>)
  /\ UNCHANGED OtherThanHeapAndLog

\* heap[1].resetTransformations()
ResetTransformations ==
  /\ Len(log) < MaxOps
  /\ heap' = [heap EXCEPT ![1] = resetTransformations(@)]
  /\ log' = Append(log, <<1, "resetTransformations">>)
  /\ UNCHANGED OtherThanHeapAndLog

TransformNext ==
  \/ \E direction \in MoveDirections : Move(direction)
  \/ \E angles \in RotationAngles : Rotate(angles)
  \/ \E position \in SetPositions : SetPosition(position)
  \/ ResetTransformations

TransformSpec == TransformInit /\ [][TransformNext]_vars

\* The calls made on the object so far, by name.
Calls == [i \in 1..Len(log) |-> log[i][2]]

\* C17: whatever moves, rotations and position changes came before, a call of
\* resetTransformations leaves the transform at the identity and the render
\* positions equal to the parsed vertex positions, and no call changes the
\* parsed vertex positions.
C17_ResetRestoresParsedPositions ==
  /\ heap[1].vertexData = TriangleObject.vertexData
  /\ (Calls # <<>> /\ Calls[Len(Calls)] = "resetTransformations") =>
       /\ heap[1].transformation = Identity
       /\ heap[1].renderData = TriangleObject.vertexData

\* A reset that followed a move and a rotation.
C17_Witness ==
  /\ Len(Calls) = 3
  /\ {Calls[1], Calls[2]} = {"move", "rotate"}
  /\ Calls[3] = "resetTransformations"
  /\ heap[1].renderData = TriangleObject.vertexData

\* Row r of the matrix applied to a point: the rotation part has whole entries,
\* so the image is computed in whole-number arithmetic.
ImageCoordinate(m, r, point) ==
  (m[4 * r - 3] \div FloatScale) * point[1] + (m[4 * r - 2] \div FloatScale) * point[2]
    + (m[4 * r - 1] \div FloatScale) * point[3] + m[4 * r]

\* C18: after the constructor and after every call of move, rotate,
\* setPosition and resetTransformations, the render positions are the current
\* transform applied to each parsed vertex, and the last row of the transform
\* is 0 0 0 1.
C18_RenderDataFollowsTransform ==
  LET o == heap[1]
      m == o.transformation
  IN  /\ <<m[13], m[14], m[15], m[16]>> = <<0, 0, 0, One>>
      /\ \A i \in 1..12 : IsNumber(m[i])
      /\ Len(o.renderData) = Len(o.vertexData)
      /\ \A k \in 1..(Len(o.vertexData) \div 3) : \A r \in 1..3 :
           o.renderData[3 * (k - 1) + r] =
             ImageCoordinate(m, r, <<o.vertexData[3 * k - 2], o.vertexData[3 * k - 1],
                                     o.vertexData[3 * k]>>)

\* A rotation, a move and a position change have run, and the render
\* positions are no longer the parsed ones.
C18_Witness ==
  /\ Calls = <<"rotate", "move", "setPosition">>
  /\ heap[1].transformation # Identity
  /\ heap[1].renderData # heap[1].vertexData
  /\ \E i \in 1..3 : heap[1].transformation[4 * i - 3] # Identity[4 * i - 3]

\* C19: the transform of the object, built from translations by whole numbers
\* and rotations by quarter and half turns about the coordinate axes,
\* multiplied by its inverse() is the identity.
C19_InverseOfRigidTransform ==
  LET T == heap[1].transformation
  IN  MatrixMultiply(T, inverse(T)) = Identity

\* ------------------------------------------------------------------------
\* The camera under the mouse and the settings handlers
\* ------------------------------------------------------------------------

\* The unit vectors along the coordinate axes.
UnitAxes ==
  {<<One, 0, 0>>, <<0 - One, 0, 0>>, <<0, One, 0>>, <<0, 0 - One, 0>>,
   <<0, 0, One>>, <<0, 0, 0 - One>>}

\* The angles of an orbit step.
OrbitAngles == {HalfPi, Pi}

\* GraphicsEngine.getRotationAroundCamera(direction, angle).  The axis is the
\* normalized cross product of the transformed drag direction and the vector
\* from the camera to the point it looks at: the zero vector when that vector
\* is zero, otherwise a unit vector perpendicular to it.  The drag directions
\* of the model are those whose axis is a coordinate axis.
OrbitAxes(e) ==
  LET centerDirection == <<Minus(e.lookAtPosition[1], e.cameraPosition[1]),
                           Minus(e.lookAtPosition[2], e.cameraPosition[2]),
                           Minus(e.lookAtPosition[3], e.cameraPosition[3])>>
  IN  IF centerDirection = <<0, 0, 0>> THEN {<<0, 0, 0>>}
      ELSE {axis \in UnitAxes :
              Plus(Plus(FTimes(axis[1], centerDirection[1]),
                        FTimes(axis[2], centerDirection[2])),
                   FTimes(axis[3], centerDirection[3])) = 0}

getRotationAroundCamera(e, axis, angle) ==
  createRotationAroundPoint(angle, axis, e.lookAtPosition)

\* What a camera operation leaves alone.
OtherThanEngineAndLog ==
  <<parseVars, heap, moveVars, objContent, mtlContent, mtlListener, reads, picked,
    mtlDialogFor, producedBy, rejected, textureVars, removedMovers>>

\* MouseHandlers.#handleMouseMove with the left button down: an orbit step,
\* then a render.
OrbitCamera(axis, angle) ==
  /\ Len(log) < MaxOps
  /\ axis \in OrbitAxes(engine)
  /\ engine' = EngineRender(rotateCamera(engine, getRotationAroundCamera(engine, axis, angle)))
  /\ log' = Append(log, <<0, "rotateCamera">>)
  /\ UNCHANGED OtherThanEngineAndLog

\* MouseHandlers.#handleMouseMove with the right button down: the camera and
\* the point it looks at move, then a render.
PanCamera(direction) ==
  /\ Len(log) < MaxOps
  /\ engine' = EngineRender(traslateCamera(engine, direction, TRUE))
  /\ log' = Append(log, <<0, "traslateCamera">>)
  /\ UNCHANGED OtherThanEngineAndLog

\* SettingsHandlers.#setCameraCenter: the point the camera looks at becomes
\* the position of the camera.
SetCameraCenter ==
  /\ Len(log) < MaxOps
  /\ engine' = setCameraCenter(engine, getCameraPosition(engine))
  /\ log' = Append(log, <<0, "setCameraCenter">>)
  /\ UNCHANGED OtherThanEngineAndLog

\* SettingsHandlers.#resetView
ResetView ==
  /\ Len(log) < MaxOps
  /\ engine' = EngineRender(resetView(engine))
  /\ log' = Append(log, <<0, "resetView">>)
  /\ UNCHANGED OtherThanEngineAndLog

CameraNext ==
  \/ \E axis \in UnitAxes \cup {<<0, 0, 0>>} : \E angle \in OrbitAngles : OrbitCamera(axis, angle)
  \/ \E direction \in UnitAxes : PanCamera(direction)
  \/ SetCameraCenter
  \/ ResetView

CameraSpec == Init /\ [][CameraNext]_vars

\* translate(point), the rotation about the axis, translate(-point), composed.
RotationAbout(angle, axis, point) ==
  MatrixMultiply(
    MatrixMultiply(createTraslationMatrix(point), createRotationAroundAxis(angle, axis)),
    createTraslationMatrix(<<0 - point[1], 0 - point[2], 0 - point[3]>>))

\* The square of the distance of two points of the grid of tenths, in
\* hundredths.
DistanceSquared(a, b) ==
  LET tenths(k) == (a[k] - b[k]) \div (FloatScale \div 10)
  IN  tenths(1) * tenths(1) + tenths(2) * tenths(2) + tenths(3) * tenths(3)

\* C20: for the point the camera looks at, wherever panning has put it, and
\* every coordinate axis and orbit angle, createRotationAroundPoint is
\* translate(point), the rotation about the axis and translate(-point)
\* composed, it maps the point to itself, and the orbit step it gives keeps
\* the distance of the camera to the point.
C20_RotationAboutLookAtPoint ==
  LET point == engine.lookAtPosition IN
  \A axis \in UnitAxes : \A angle \in OrbitAngles :
    LET M == createRotationAroundPoint(angle, axis, point) IN
    /\ M = RotationAbout(angle, axis, point)
    /\ transform(M, point) = point
    /\ axis \in OrbitAxes(engine) =>
         DistanceSquared(rotateCamera(engine, M).cameraPosition, point)
           = DistanceSquared(engine.cameraPosition, point)

\* ------------------------------------------------------------------------
\* Matrix (src/main.js): matrices of any shape
\* ------------------------------------------------------------------------

\* new Matrix(rows, cols, elems); the elements are stored row by row.
Matrix(rows, cols, elems) == [isMatrix |-> TRUE, rows |-> rows, cols |-> cols, elements |-> elems]

\* A value that is not an instance of Matrix.
NotAMatrix == [isMatrix |-> FALSE, rows |-> 0, cols |-> 0, elements |-> <<>>]

\* Matrix.get(row, col) for a row and a column of the matrix, counted from 0.
get(m, row, col) == m.elements[row * m.cols + col + 1]

\* The inner loop of Matrix.multiply: sum += this.get(i, k) * other.get(k, j)
\* for k from 0 up to this.cols - 1.
RECURSIVE MultiplySum(_, _, _, _, _)
MultiplySum(this, other, i, j, n) ==
  IF n = 0 THEN 0
  ELSE Plus(MultiplySum(this, other, i, j, n - 1),
            FTimes(get(this, i, n - 1), get(other, n - 1, j)))

multiplyUnchecked(this, other) ==
  IF ~other.isMatrix
  THEN [threw |-> TRUE, result |-> NotAMatrix, this |-> this, other |-> other]
  ELSE [threw |-> FALSE,
        result |-> Matrix(this.rows, other.cols,
                          [n \in 1..(this.rows * other.cols) |->
                             IF this.cols # other.rows THEN 0
                             ELSE MultiplySum(this, other, (n - 1) \div other.cols,
                                              (n - 1) % other.cols, this.cols)]),
        this |-> this, other |-> other]

\* Matrix.multiply(other): [threw, result, this, other], the last two being
\* the operands as the call leaves them.
multiply(this, other) ==
  IF ~other.isMatrix \/ this.cols # other.rows
  THEN [threw |-> TRUE, result |-> NotAMatrix, this |-> this, other |-> other]
  ELSE [threw |-> FALSE,
        result |-> Matrix(this.rows, other.cols,
                          [n \in 1..(this.rows * other.cols) |->
                             MultiplySum(this, other, (n - 1) \div other.cols,
                                         (n - 1) % other.cols, this.cols)]),
        this |-> this, other |-> other]

\* The largest number of rows and of columns of an operand.
MaxDim == 2

\* The entries of the operands.
MatrixEntries == {One, 0 - 2 * One}

Matrices ==
  UNION {{Matrix(rows, cols, elems) : elems \in [1..(rows * cols) -> MatrixEntries]} :
           <<rows, cols>> \in (1..MaxDim) \X (1..MaxDim)}

\* The page with nothing loaded, the heap apart.
IdleExceptHeap ==
  /\ mtlText = <<>>
  /\ objText = VertexLines
  /\ parser = NewParser(TextureNames)
  /\ constructed = FALSE
  /\ loaded = [threw |-> FALSE, object |-> Absent]
  /\ loadDone = FALSE
  /\ engine = EngineRender(GraphicsEngine)
  /\ movingObject = 0
  /\ menu = <<>>
  /\ moveControlsShown = FALSE
  /\ currentInterval = 0
  /\ timers = <<>>
  /\ delta = InitialDelta
  /\ ticks = 0
  /\ objContent = Absent
  /\ mtlContent = Absent
  /\ mtlListener = FALSE
  /\ reads = {}
  /\ picked = <<>>
  /\ mtlDialogFor = 0
  /\ producedBy = <<>>
  /\ log = <<>>
  /\ rejected = {}
  /\ textureLoads = {}
  /\ nLoads = 0
  /\ completed = <<>>
  /\ removedMovers = {}

\* Two operands on the heap: the first a matrix, the second a matrix or not.
MatrixInit ==
  /\ heap \in {<<this, other>> : this \in Matrices, other \in Matrices \cup {NotAMatrix}}
  /\ IdleExceptHeap

\* heap[1].multiply(heap[2]): the operands stay on the heap as the call leaves
\* them, the result is put after them, and the log records how the call ended.
Multiply ==
  /\ log = <<>>
  /\ \E r \in {multiply(heap[1], heap[2])} :
       /\ heap' = IF r.threw THEN <<r.this, r.other>> ELSE <<r.this, r.other, r.result>>
       /\ log' = <<IF r.threw THEN <<1, "throw">> ELSE <<1, "multiply">> >>
  /\ UNCHANGED OtherThanHeapAndLog

MatrixNext == Multiply

MatrixSpec == MatrixInit /\ [][MatrixNext]_vars

\* Entry (i, j) of the product, counted from 1, in whole-number arithmetic.
RECURSIVE ProductEntry(_, _, _, _, _)
ProductEntry(a, b, i, j, k) ==
  IF k = 0 THEN 0
  ELSE ProductEntry(a, b, i, j, k - 1)
         + (a.elements[(i - 1) * a.cols + k] \div One) * b.elements[(k - 1) * b.cols + j]

\* C21: a call of multiply throws exactly when the argument is not a Matrix
\* or the columns of this differ from the rows of the argument; otherwise the
\* result has the rows of this, the columns of the argument and the sums of
\* products as entries; either way the two operands are as they were.
C21_MultiplyFailsFast ==
  [][Multiply =>
       LET this == heap[1]
           other == heap[2]
           mismatch == ~other.isMatrix \/ this.cols # other.rows
       IN  /\ heap'[1] = this
           /\ heap'[2] = other
           /\ (log' = << <<1, "throw">> >>) <=> mismatch
           /\ mismatch => Len(heap') = 2
           /\ ~mismatch =>
                /\ Len(heap') = 3
                /\ heap'[3].isMatrix
                /\ heap'[3].rows = this.rows
                /\ heap'[3].cols = other.cols
                /\ Len(heap'[3].elements) = this.rows * other.cols
                /\ \A i \in 1..this.rows : \A j \in 1..other.cols :
                     heap'[3].elements[(i - 1) * other.cols + j]
                       = ProductEntry(this, other, i, j, this.cols)]_vars

\* A product of a 2 by 2 matrix and a 2 by 1 matrix has been computed.
C21_Witness ==
  /\ log = << <<1, "multiply">> >>
  /\ Len(heap) = 3
  /\ heap[1].rows = 2 /\ heap[1].cols = 2 /\ heap[2].cols = 1
  /\ heap[3].elements = <<0 - One, 2 * One>>

\* ------------------------------------------------------------------------
\* The camera under the mouse wheel
\* ------------------------------------------------------------------------

\* GraphicsEngine.moveCamera(direction): the direction is normalized and added
\* to the position of the camera.
moveCamera(e, direction) ==
  LET d == normalize(direction)
  IN  [e EXCEPT !.cameraPosition = <<Plus(@[1], d[1]), Plus(@[2], d[2]), Plus(@[3], d[3])>>]

\* Math.sign(event.deltaY)
WheelSigns == {0 - 1, 0, 1}

\* MouseHandlers.#handleMouseWheel: the direction from the point the camera
\* looks at to the camera, normalized and scaled by the sign, is handed to
\* moveCamera; then a render.
WheelCamera(sign) ==
  /\ Len(log) < MaxOps
  /\ LET centre == engine.lookAtPosition
         camera == engine.cameraPosition
         direction == normalize(<<Minus(camera[1], centre[1]), Minus(camera[2], centre[2]),
                                  Minus(camera[3], centre[3])>>)
         scaled == <<FTimes(direction[1], sign * One), FTimes(direction[2], sign * One),
                     FTimes(direction[3], sign * One)>>
     IN  engine' = EngineRender(moveCamera(engine, scaled))
  /\ log' = Append(log, <<0, "moveCamera">>)
  /\ UNCHANGED OtherThanEngineAndLog

WheelNext ==
  \/ \E sign \in WheelSigns : WheelCamera(sign)
  \/ CameraNext

WheelSpec == Init /\ [][WheelNext]_vars

\* C22: a wheel tick whose sign is not zero leaves the point the camera looks
\* at where it is and moves the camera by one unit, wherever the camera is;
\* the length of the movement is stated where the new position is on the grid.
C22_WheelMovesOneUnit ==
  [][\A sign \in {0 - 1, 1} :
       WheelCamera(sign) =>
         /\ engine'.lookAtPosition = engine.lookAtPosition
         /\ (\A k \in 1..3 : IsNumber(engine'.cameraPosition[k])) =>
              DistanceSquared(engine'.cameraPosition, engine.cameraPosition) = 100]_vars

\* ------------------------------------------------------------------------
\* Material libraries with Tr and d lines
\* ------------------------------------------------------------------------

\* The longest body of such a library, in lines, after its first newmtl line.
MaxAlphaLines == 4

AlphaLines ==
  { <<"newmtl", "A">>, <<"newmtl", "B">>, <<"Tr", "3">>, <<"d", "2">>, <<"d", "0">>,
    <<"Kd", "1", "0", "0">> }

AlphaTexts == {<< <<"newmtl", "A">> >> \o body : body \in SeqsUpTo(AlphaLines, MaxAlphaLines)}

AlphaInit ==
  /\ mtlText \in AlphaTexts
  /\ objText = VertexLines
  /\ parser = NewParser(TextureNames)
  /\ constructed = FALSE
  /\ loaded = [threw |-> FALSE, object |-> Absent]
  /\ loadDone = FALSE
  /\ SceneInit

AlphaSpec == AlphaInit /\ [][ParseNext]_vars

\* The alpha the library gives a material, read off the lines: the last Tr or
\* d line between the last newmtl line of that name and the next newmtl line
\* decides, Tr v giving 1 - v and d v giving v; with no such line it is 1.
AlphaOf(text, name) ==
  LET decl    == CHOOSE i \in 1..Len(text) :
                   /\ text[i] = <<"newmtl", name>>
                   /\ \A j \in (i + 1)..Len(text) : text[j] # <<"newmtl", name>>
      next    == CHOOSE n \in (decl + 1)..(Len(text) + 1) :
                   /\ n = Len(text) + 1 \/ text[n][1] = "newmtl"
                   /\ \A j \in (decl + 1)..(n - 1) : text[j][1] # "newmtl"
      setters == {j \in (decl + 1)..(next - 1) : text[j][1] \in {"Tr", "d"}}
      last    == CHOOSE j \in setters : \A k \in setters : k <= j
  IN  IF setters = {} THEN One
      ELSE IF text[last][1] = "Tr" THEN One - Numerals[text[last][2]] * One
      ELSE Numerals[text[last][2]] * One

DeclaredNames(text) == {text[i][2] : i \in {j \in 1..Len(text) : text[j][1] = "newmtl"}}

\* C23: after the library is parsed, every material it declares has the alpha
\* its own Tr and d lines give it, the later line deciding, and alpha 1 when
\* it has neither; the lines of one material do not reach another material,
\* the default material included.
C23_AlphaFromTrAndD ==
  constructed =>
    /\ ~parser.threw
    /\ GetOwn(parser.materials, "default").alpha = One
    /\ \A name \in DeclaredNames(mtlText) :
         /\ HasOwn(parser.materials, name)
         /\ GetOwn(parser.materials, name).alpha = AlphaOf(mtlText, name)

\* A has a Tr line and then a d line, B has neither.
C23_Witness ==
  /\ constructed
  /\ mtlText = << <<"newmtl", "A">>, <<"Tr", "3">>, <<"d", "2">>, <<"newmtl", "B">> >>
  /\ GetOwn(parser.materials, "A").alpha = 2 * One
  /\ GetOwn(parser.materials, "B").alpha = One

\* The product of two 4 by 4 matrices whose entries are whole numbers, in
\* whole-number arithmetic.
WholeProduct(a, b) ==
  [n \in 1..16 |->
     LET i == (n - 1) \div 4
         j == (n - 1) % 4
         term(k) == (a[4 * i + k + 1] \div One) * b[4 * k + j + 1]
     IN  term(0) + term(1) + term(2) + term(3)]

\* The cosine and the sine of 0, of a quarter turn and of a half turn.
WholeCos(angle) == IF angle = 0 THEN One ELSE IF angle = HalfPi THEN 0 ELSE 0 - One

WholeSin(angle) == IF angle = HalfPi THEN One ELSE 0

\* The textbook matrices of a translation and of the rotations about x, y, z.
Translation(d) ==
  <<One, 0, 0, d[1],
    0, One, 0, d[2],
    0, 0, One, d[3],
    0, 0, 0, One>>

Rx(angle) ==
  <<One, 0, 0, 0,
    0, WholeCos(angle), 0 - WholeSin(angle), 0,
    0, WholeSin(angle), WholeCos(angle), 0,
    0, 0, 0, One>>

Ry(angle) ==
  <<WholeCos(angle), 0, WholeSin(angle), 0,
    0, One, 0, 0,
    0 - WholeSin(angle), 0, WholeCos(angle), 0,
    0, 0, 0, One>>

Rz(angle) ==
  <<WholeCos(angle), 0 - WholeSin(angle), 0, 0,
    WholeSin(angle), WholeCos(angle), 0, 0,
    0, 0, One, 0,
    0, 0, 0, One>>

\* C24: a move leaves the transform at the old transform times the translation
\* by its direction, and a rotate leaves it at the old transform times
\* Rz * Ry * Rx of its angles.
C24_MutatorsComposeOnTheRight ==
  [][/\ \A direction \in MoveDirections :
          Move(direction) =>
            heap'[1].transformation
              = WholeProduct(heap[1].transformation, Translation(direction))
     /\ \A angles \in RotationAngles :
          Rotate(angles) =>
            heap'[1].transformation
              = WholeProduct(heap[1].transformation,
                             WholeProduct(WholeProduct(Rz(angles[3]), Ry(angles[2])),
                                          Rx(angles[1])))]_vars

\* A quarter turn about z and then a move along x: the object has moved along
\* its own x axis, which now points along y; and a rotation about two axes.
C24_Witness ==
  /\ Calls = <<"rotate", "move", "rotate">>
  /\ heap[1].transformation[4] = 0
  /\ heap[1].transformation[8] = One
  /\ heap[1].transformation =
       WholeProduct(WholeProduct(Rz(HalfPi), Translation(<<One, 0, 0>>)),
                    WholeProduct(Rz(HalfPi), Rx(HalfPi)))

\* ------------------------------------------------------------------------
\* Lines whose tokens are separated by more than one space, or by tabs
\* ------------------------------------------------------------------------

\* The longest geometry body of these texts, in lines.
MaxSpacingLines == 3

\* A line is the sequence of the chunks between its single spaces: two spaces
\* in a row leave an empty chunk between them, and a line written with tabs
\* is one chunk.
SpacingObjLines ==
  { <<"v", "1", "1", "0">>, <<"v", "", "1", "1", "0">>, <<"v\t1\t1\t0">>,
    <<"o", "a">>, <<"o", "", "a">>,
    <<"f", "1", "2", "3">>, <<"f", "1", "", "2", "3">>,
    <<"l", "1", "2">> }

SpacingMtlTexts ==
  { <<>>, << <<"newmtl", "A">>, <<"Kd", "1", "0", "0">> >>,
    << <<"newmtl", "", "A">> >>, << <<"newmtl", "A">>, <<"Kd", "", "1", "0", "0">> >> }

SpacingInit ==
  /\ mtlText \in SpacingMtlTexts
  /\ objText \in {VertexLines \o body : body \in SeqsUpTo(SpacingObjLines, MaxSpacingLines)}
  /\ parser = NewParser(TextureNames)
  /\ constructed = FALSE
  /\ loaded = [threw |-> FALSE, object |-> Absent]
  /\ loadDone = FALSE
  /\ SceneInit

SpacingSpec == SpacingInit /\ [][ParseNext]_vars

\* The tokens of a chunk written with tabs.
SplitOnTabs(chunk) ==
  CASE chunk = "v\t1\t1\t0" -> <<"v", "1", "1", "0">>
    [] OTHER -> <<chunk>>

\* The same line written with single spaces: the tokens in order, with no
\* empty chunk and no tab.
SingleSpaced(line) ==
  Flatten([i \in 1..Len(line) |-> IF line[i] = "" THEN <<>> ELSE SplitOnTabs(line[i])])

SingleSpacedText(text) == [i \in 1..Len(text) |-> SingleSpaced(text[i])]

\* What the parser has collected: the pools, the parts and the materials.
ParsedData(p) ==
  [vertices |-> p.vertices, normals |-> p.normals, texCoords |-> p.texCoords,
   objects |-> p.objects, materials |-> p.materials, threw |-> p.threw]

\* C25: the parser collects from a text the same pools, parts and materials
\* as from the same text with every line written with single spaces.
C25_WhitespaceSeparatesTokens ==
  constructed =>
    ParsedData(parser)
      = ParsedData(ObjectParser(SingleSpacedText(objText), SingleSpacedText(mtlText),
                                TextureNames))

\* ------------------------------------------------------------------------
\* The renderer's buffers and the scene list
\* ------------------------------------------------------------------------

\* The objects the renderer holds buffers for, and the objects last drawn.
BufferedObjects == {engine.buffers[i].obj : i \in 1..Len(engine.buffers)}

DrawnObjects == {engine.drawn[i].obj : i \in 1..Len(engine.drawn)}

SceneObjects == {engine.renderObjects[k] : k \in 1..Len(engine.renderObjects)}

RunningTimers == {t \in 1..Len(timers) : ~timers[t].cleared}

MoverShownInUi ==
  /\ moveControlsShown <=> movingObject # 0
  /\ \A i \in 1..Len(menu) : menu[i].moveDisabled <=> movingObject # 0

\* A step that changes the slot fills the empty slot by a begin-move click, or
\* empties it by finish-move or by the removal of the object in it.
MoverChangesInThreeWays ==
  movingObject' # movingObject =>
    \/ /\ movingObject = 0
       /\ \E i \in 1..Len(menu) : ClickMove(i) /\ movingObject' = menu[i].obj
    \/ /\ movingObject # 0
       /\ movingObject' = 0
       /\ \/ ClickFinishMove
          \/ \E i \in 1..Len(menu) : ClickRemove(i) /\ menu[i].obj = movingObject

SegmentsOf(partNames, text) ==
  Flatten([k \in 1..Len(partNames) |-> Segments(LinesOfPart(text, partNames[k]))])

\* The number of segments the l lines of a geometry text ask for: one less
\* than the number of vertex indices of each line.
SegmentCount(text) ==
  LET lines == PartLines(text).lines
  IN  SumOf([i \in 1..Len(lines) |-> Len(lines[i].tokens) - 1])

\* C29: every entry of the line index buffer is smaller than the number of
\* flattened vertices, the flattened position it selects is the position of
\* the pool vertex the l line named, and a polyline of k vertex indices gives
\* k-1 segments, one per consecutive pair, in file order.
C29_LineIndicesSelectNamedVertices ==
  (constructed /\ ~parser.threw /\ ~getLineIndices(parser).threw) =>
    LET buffer == getLineIndices(parser).buffer
        flat   == getVertices(parser)
        want   == SegmentsOf(getObjectNames(parser), objText)
    IN  /\ Len(buffer) = 2 * SegmentCount(objText)
        /\ Len(buffer) = Len(want)
        /\ \A i \in 1..Len(buffer) :
             /\ buffer[i] < Len(flat) \div 3
             /\ Triple(flat, buffer[i] + 1) = Triple(parser.vertices, want[i] + 1)

\* The part of C29 about the segments alone, for files with no part named
\* "buffer": the buffer lists the consecutive pairs of every polyline, as pool
\* vertex numbers.
LineSegmentsInFileOrder ==
  (constructed /\ ~parser.threw /\ ~getLineIndices(parser).threw
     /\ ~HasOwn(parser.objects, "buffer")) =>
    /\ Len(getLineIndices(parser).buffer) = 2 * SegmentCount(objText)
    /\ getLineIndices(parser).buffer = SegmentsOf(getObjectNames(parser), objText)

====
